---------------------------- MODULE Spec2Model ----------------------------
(***************************************************************************)
(* Animation-Builder ("AI Sketchy").                                       *)
(*                                                                         *)
(* Part I   SketchCanvas: command capture and the staggered scheduler      *)
(*          (src/unnamed/part_002).                                        *)
(* Part II  App: narration cache and loader, interactive playback and the  *)
(*          video export (src/unnamed/part_004, lines 1-736).              *)
(*                                                                         *)
(* Time is in milliseconds.  In Part I the clock `now` moves only when a   *)
(* timer fires: a timer fires no earlier than its due time, and timers     *)
(* fire in the order of their due times.  In Part II a timer carries its   *)
(* delay but a pending timer may fire at any moment.  A handler, the       *)
(* render that follows it and the effects of that render are one step.     *)
(* SpecCanvas runs Part I with the App idle; SpecApp runs Part II and      *)
(* leaves the canvas aside; SpecRegen is SpecApp with the regeneration of  *)
(* a step's sketch added.                                                  *)
(* SpecExportCanvas runs the export chain of Part II together with the     *)
(* canvas of Part I on one clock.                                          *)
(* Part III storageService: the saved lessons in localStorage              *)
(*          (src/unnamed/part_001, lines 1-49), run by SpecHistory.  In    *)
(*          Part II a history load offers any of the lessons, whatever the *)
(*          store holds.                                                   *)
(***************************************************************************)
EXTENDS Integers, Sequences, FiniteSets, TLC

VARIABLES
    \* ---- SketchCanvas ----
    mounted,        \* the canvas element exists (canvasRef.current # null)
    code,           \* the `code` prop of the last runAnimation
    run,            \* number of runAnimation calls so far: the id of the current run
    commandQueue,   \* commandQueue of the latest runAnimation call
    timeoutsRef,    \* timeoutsRef.current: ids of the timers the latest run recorded
    pendingTimeouts,\* browser: setTimeout timers not yet fired nor cleared
    rafQueue,       \* browser: requestAnimationFrame callbacks not yet run
    surface,        \* what was drawn on the canvas since the last fillRect
    error,          \* React state `error`
    done,           \* indices of the current run whose command was invoked
    failed,         \* indices of the current run whose command threw
    lastFrame,      \* the commands invoked by the step that led here (an animation frame)
    now,            \* clock, ms
    startedAt,      \* the time of the latest runAnimation call
    \* ---- App: React state ----
    appState,           \* "IDLE" | "LOADING" | "SUCCESS" | "ERROR"
    steps,              \* the step list
    currentStepIndex,   \* 0-based
    isSpeaking,
    isLoadingAudio,
    quotaExceeded,
    isExporting,
    showDropdown,
    isRegenerating,
    gestures,       \* number of user gestures handled so far
    \* ---- App: refs ----
    currentStepRef,
    audioCacheRef,              \* NarrationKey -> AudioBuffer (NoBuffer: no entry)
    audioLoadingPromisesRef,    \* NarrationKey -> id of the in-flight promise (0: no entry)
    recorder,                   \* mediaRecorderRef: "none" | "recording" | "stopping"
    \* ---- App: environment and continuations ----
    upstream,       \* generateSpeech calls in flight
    waiters,        \* continuations awaiting a promise of ensureAudioLoaded
    sources,        \* audio source nodes that play or whose ended event is pending
    timers,         \* pending setTimeout timers of App
    searches,       \* generateSketchSteps calls in flight
    regenerations,  \* regenerateSingleStep calls in flight, each with its closure
    exportSession,  \* the running handleExportVideo call and its closure
    lastCall,       \* the ensureAudioLoaded calls of the step that led here
    lastSettle,     \* the generateSpeech call that step settled, and who was told
    lastDiscarded,  \* the indices whose loaded audio that step discarded as stale
    \* ---- storageService ----
    localStorage,   \* the entry under STORAGE_KEY: present or not, and its items
    dateNow,        \* Date.now()
    storageOps,     \* number of storageService calls made so far
    lastOp          \* the latest storageService call and what it stored

canvasVars == <<mounted, code, run, commandQueue, timeoutsRef, pendingTimeouts,
                rafQueue, surface, error, done, failed, lastFrame, now, startedAt>>

appVars == <<appState, steps, currentStepIndex, isSpeaking, isLoadingAudio,
             quotaExceeded, isExporting, showDropdown, isRegenerating, gestures,
             currentStepRef, audioCacheRef,
             audioLoadingPromisesRef, recorder, upstream, waiters, sources,
             timers, searches, regenerations, exportSession, lastCall, lastSettle,
             lastDiscarded>>

storageVars == <<localStorage, dateNow, storageOps, lastOp>>

vars == <<canvasVars, appVars, storageVars>>

----------------------------------------------------------------------------
(* Bounds *)

MaxCodeLen == 2     \* instructions in one step code
MaxRuns == 2        \* runAnimation calls in one behaviour

(* Program constants *)

STAGGER_DELAY == 200

NoError == "null"
DrawError == "Could not draw this step."

----------------------------------------------------------------------------
(* Step code.  A step code is the sequence of the things it does when it   *)
(* runs: it invokes a drawing primitive, draws on ctx directly, or throws. *)
(* `bad` marks an invocation whose arguments make the real draw throw.     *)

PrimKinds == {"rc", "drawArrow", "drawCurve", "drawText"}

Instr(k, a, b) == [kind |-> k, arg |-> a, bad |-> b]

Instrs ==
    { Instr("rc", 1, FALSE), Instr("drawArrow", 2, TRUE),
      Instr("drawCurve", 3, FALSE), Instr("drawText", 4, FALSE),
      Instr("ctx", 5, FALSE), Instr("throw", 0, FALSE) }

SeqsUpTo(S, n) == UNION { [1..k -> S] : k \in 0..n }

Codes == SeqsUpTo(Instrs, MaxCodeLen)

\* drawText("Oops! Drawing Error.", width/2, height/2, {color: '#ef4444', size: 40})
ErrorNotice == Instr("drawText", 99, FALSE)

\* ctx.fillStyle = '#ffffff'; ctx.fillRect(0, 0, width, height)
WhiteFill == Instr("fillRect", 0, FALSE)

\* A mutation of addToQueue: the closure is put at the head of the list.
addToQueue_Prepend(queue, fn) == <<fn>> \o queue

addToQueue(queue, fn) == Append(queue, fn)

\* rcProxy: a method call on rc only queues the call with its arguments.
rcProxy(queue, ins) == addToQueue(queue, Instr("rc", ins.arg, ins.bad))

drawArrow(queue, ins) == addToQueue(queue, Instr("drawArrow", ins.arg, ins.bad))

drawCurve(queue, ins) == addToQueue(queue, Instr("drawCurve", ins.arg, ins.bad))

drawText(queue, ins) == addToQueue(queue, Instr("drawText", ins.arg, ins.bad))

\* drawFunction(rcProxy, ctx, width, height, drawArrow, drawCurve, drawText):
\* runs the code from instruction i; acc = [queue, direct, threw].
RECURSIVE drawFunction(_, _, _)
drawFunction(c, i, acc) ==
    IF i > Len(c) THEN acc
    ELSE LET ins == c[i] IN
         CASE ins.kind = "throw" -> [acc EXCEPT !.threw = TRUE]
           [] ins.kind = "ctx" ->
                drawFunction(c, i + 1, [acc EXCEPT !.direct = Append(@, ins)])
           [] ins.kind = "rc" ->
                drawFunction(c, i + 1, [acc EXCEPT !.queue = rcProxy(@, ins)])
           [] ins.kind = "drawArrow" ->
                drawFunction(c, i + 1, [acc EXCEPT !.queue = drawArrow(@, ins)])
           [] ins.kind = "drawCurve" ->
                drawFunction(c, i + 1, [acc EXCEPT !.queue = drawCurve(@, ins)])
           [] OTHER ->
                drawFunction(c, i + 1, [acc EXCEPT !.queue = drawText(@, ins)])

Capture(c) == drawFunction(c, 1, [queue |-> <<>>, direct |-> <<>>, threw |-> FALSE])

\* One setTimeout of the scheduling loop: the closure holds its own command.
StaggerTimer(r, i, cmd, t) == [run |-> r, index |-> i, cmd |-> cmd, due |-> t]

\* A mutation of ClearTimeouts: no timer is cleared.
ClearTimeouts_None(pending, ids) == pending

\* timeoutsRef.current.forEach(clearTimeout)
ClearTimeouts(pending, ids) ==
    { t \in pending : ~ \E k \in 1..Len(ids) : ids[k] = <<t.run, t.index>> }

\* A mutation of ScheduleTimers: every command is scheduled without delay.
ScheduleTimers_NoStagger(queue, r, t0) ==
    { StaggerTimer(r, i, queue[i], t0) : i \in 1..Len(queue) }

\* commandQueue.forEach((command, index) => setTimeout(..., index * STAGGER_DELAY))
ScheduleTimers(queue, r, t0) ==
    { StaggerTimer(r, i, queue[i], t0 + (i - 1) * STAGGER_DELAY) : i \in 1..Len(queue) }

\* A mutation of runAnimation: the commands captured before the throw are
\* scheduled all the same.
runAnimation_ScheduleOnThrow(c) ==
    LET cap == Capture(c) IN
    /\ mounted
    /\ run' = run + 1
    /\ code' = c
    /\ surface' = <<WhiteFill>> \o cap.direct
    /\ done' = {}
    /\ failed' = {}
    /\ error' = IF cap.threw THEN DrawError ELSE NoError
    /\ commandQueue' = IF cap.threw THEN drawText(cap.queue, ErrorNotice) ELSE cap.queue
    /\ timeoutsRef' = [i \in 1..Len(cap.queue) |-> <<run + 1, i>>]
    /\ pendingTimeouts' = ClearTimeouts(pendingTimeouts, timeoutsRef)
                            \cup ScheduleTimers(cap.queue, run + 1, now)
    /\ lastFrame' = <<>>
    /\ startedAt' = now
    /\ UNCHANGED <<mounted, rafQueue, now>>

\* runAnimation, for the code c.
runAnimation(c) ==
    LET cap == Capture(c) IN
    /\ mounted
    /\ run' = run + 1
    /\ code' = c
    /\ surface' = <<WhiteFill>> \o cap.direct
    /\ done' = {}
    /\ failed' = {}
    /\ IF cap.threw
       THEN /\ error' = DrawError
            /\ commandQueue' = drawText(cap.queue, ErrorNotice)
            /\ timeoutsRef' = <<>>
            /\ pendingTimeouts' = ClearTimeouts(pendingTimeouts, timeoutsRef)
       ELSE /\ error' = NoError
            /\ commandQueue' = cap.queue
            /\ timeoutsRef' = [i \in 1..Len(cap.queue) |-> <<run + 1, i>>]
            /\ pendingTimeouts' = ClearTimeouts(pendingTimeouts, timeoutsRef)
                                    \cup ScheduleTimers(cap.queue, run + 1, now)
    /\ lastFrame' = <<>>
    /\ startedAt' = now
    /\ UNCHANGED <<mounted, rafQueue, now>>

\* useEffect(..., [code, width, height]): the code prop changed.
CodeChange ==
    \E c \in Codes :
        /\ run < MaxRuns
        /\ c # code
        /\ runAnimation(c)

\* useImperativeHandle: replay()
Replay ==
    /\ run < MaxRuns
    /\ runAnimation(code)

\* The useEffect cleanup when the component unmounts.
Unmount ==
    /\ mounted
    /\ mounted' = FALSE
    /\ pendingTimeouts' = ClearTimeouts(pendingTimeouts, timeoutsRef)
    /\ lastFrame' = <<>>
    /\ UNCHANGED <<code, run, commandQueue, timeoutsRef, rafQueue, surface, error,
                   done, failed, now, startedAt>>

Earliest(t) == \A u \in pendingTimeouts : t.due <= u.due

Max(a, b) == IF a >= b THEN a ELSE b

\* The setTimeout callback: requestAnimationFrame(() => { try { command() } ... })
StaggerTimerFire ==
    \E t \in pendingTimeouts :
        /\ Earliest(t)
        /\ pendingTimeouts' = pendingTimeouts \ {t}
        /\ now' = Max(now, t.due)
        /\ rafQueue' = Append(rafQueue,
                              [run |-> t.run, index |-> t.index,
                               cmd |-> t.cmd])
        /\ lastFrame' = <<>>
        /\ UNCHANGED <<mounted, code, run, commandQueue, timeoutsRef, surface, error,
                       done, failed, startedAt>>

\* One requestAnimationFrame callback: try { command() } catch (e) { console.error }
\* st = [surface, done, failed, frame]; e = [run, index, cmd].
InvokeCallback(st, e) ==
    LET cur == (e.run = run) IN
    [surface |-> IF e.cmd.bad THEN st.surface ELSE Append(st.surface, e.cmd),
     done    |-> IF cur THEN st.done \cup {e.index} ELSE st.done,
     failed  |-> IF cur /\ e.cmd.bad THEN st.failed \cup {e.index} ELSE st.failed,
     frame   |-> Append(st.frame, [run |-> e.run, index |-> e.index, cmd |-> e.cmd,
                                   curRun |-> run, mounted |-> mounted,
                                   threw |-> e.cmd.bad, at |-> now])]

RECURSIVE RunCallbacks(_, _, _)
RunCallbacks(queue, i, st) ==
    IF i > Len(queue) THEN st
    ELSE RunCallbacks(queue, i + 1, InvokeCallback(st, queue[i]))

\* A mutation of AnimationFrame: a command that throws ends the animation (the
\* timers still pending are cleared).
AnimationFrame_AbortOnThrow ==
    LET st == RunCallbacks(rafQueue, 1, [surface |-> surface, done |-> done,
                                         failed |-> failed, frame |-> <<>>]) IN
    /\ rafQueue # <<>>
    /\ rafQueue' = <<>>
    /\ surface' = st.surface
    /\ done' = st.done
    /\ failed' = st.failed
    /\ lastFrame' = st.frame
    /\ pendingTimeouts' = IF \E k \in 1..Len(st.frame) : st.frame[k].threw
                          THEN {} ELSE pendingTimeouts
    /\ UNCHANGED <<mounted, code, run, commandQueue, timeoutsRef, error, now, startedAt>>

\* The browser runs the animation frame callbacks, in the order they were requested.
AnimationFrame ==
    LET st == RunCallbacks(rafQueue, 1, [surface |-> surface, done |-> done,
                                         failed |-> failed, frame |-> <<>>]) IN
    /\ rafQueue # <<>>
    /\ rafQueue' = <<>>
    /\ surface' = st.surface
    /\ done' = st.done
    /\ failed' = st.failed
    /\ lastFrame' = st.frame
    /\ UNCHANGED <<mounted, code, run, commandQueue, timeoutsRef, pendingTimeouts,
                   error, now, startedAt>>

----------------------------------------------------------------------------
(* App: steps and narration keys.  A string is a sequence of characters.   *)

AUTOPLAY_DELAY == 500
PREFETCH_DELAY == 1500
EXPORT_SETTLE_DELAY == 100
EXPORT_PAUSE == 1000
EXPORT_FALLBACK_HOLD == 5000
EXPORT_TAIL == 1000

MaxSources == 2     \* source nodes alive at once
MaxWaiters == 2     \* continuations awaiting a synthesis at once
MaxGestures == 4    \* clicks and submits of the user in one behaviour
MaxLiveGestures == 3    \* the same, in the behaviours checked for liveness
MaxStorageOps == 3      \* storageService calls in one behaviour
LongCodeLen == 17       \* shapes drawn by the long step code of SpecExportCanvas

Step(t, d, c) == [title |-> t, description |-> d, code |-> c]

RECURSIVE TrimStart(_)
TrimStart(str) ==
    IF str # <<>> /\ Head(str) = " " THEN TrimStart(Tail(str)) ELSE str

RECURSIVE TrimEnd(_)
TrimEnd(str) ==
    IF str # <<>> /\ str[Len(str)] = " "
    THEN TrimEnd(SubSeq(str, 1, Len(str) - 1)) ELSE str

\* String.prototype.trim
Trim(str) == TrimEnd(TrimStart(str))

\* A mutation of getAudioKey: the key is built from the untrimmed fields.
getAudioKey_NoTrim(step) == step.title \o <<"|">> \o step.description

\* `${step.title.trim()}|${step.description.trim()}`
getAudioKey(step) == Trim(step.title) \o <<"|">> \o Trim(step.description)

\* The step lists the planner returns and the history holds.  Steps 0 and 2 of
\* ListA have the same trimmed title and description and different code; the
\* step of ListB has the text of step 0 of ListA and another code.
ListA ==
    << Step(<<"a">>, <<"x">>, <<Instr("rc", 1, FALSE)>>),
       Step(<<"b">>, <<"y">>, <<Instr("drawText", 4, FALSE)>>),
       Step(<<" ", "a">>, <<"x", " ">>, <<Instr("drawCurve", 3, FALSE)>>) >>

ListB ==
    << Step(<<"a">>, <<"x">>, <<Instr("drawArrow", 2, TRUE)>>) >>

StepLists == {ListA, ListB}

Queries == {"q"}

AllKeys == { getAudioKey(l[i]) : i \in 1..1, l \in {ListB} } \cup
           { getAudioKey(ListA[i]) : i \in 1..3 }

\* The text of a step: what its narration says.
Narration(step) == [title |-> step.title, description |-> step.description]

NoBuffer == [title |-> <<>>, description |-> <<>>]

\* base64ToBytes + pcmToAudioBuffer: the buffer holds the audio of the text sent.
Buffer(narration) == narration

\* Equal trimmed title and equal trimmed description.
SameNarration(n1, n2) ==
    Trim(n1.title) = Trim(n2.title) /\ Trim(n1.description) = Trim(n2.description)

\* The state a handler works on, and the state it leaves.
Cur ==
    [appState |-> appState, steps |-> steps, currentStepIndex |-> currentStepIndex,
     isSpeaking |-> isSpeaking, isLoadingAudio |-> isLoadingAudio,
     quotaExceeded |-> quotaExceeded, isExporting |-> isExporting,
     showDropdown |-> showDropdown, isRegenerating |-> isRegenerating,
     gestures |-> gestures,
     currentStepRef |-> currentStepRef, audioCacheRef |-> audioCacheRef,
     audioLoadingPromisesRef |-> audioLoadingPromisesRef, recorder |-> recorder,
     upstream |-> upstream, waiters |-> waiters,
     sources |-> sources, timers |-> timers, searches |-> searches,
     regenerations |-> regenerations,
     exportSession |-> exportSession, lastCall |-> <<>>, lastSettle |-> <<>>,
     lastDiscarded |-> <<>>,
     stepsSet |-> FALSE]

Apply(st) ==
    /\ appState' = st.appState
    /\ steps' = st.steps
    /\ currentStepIndex' = st.currentStepIndex
    /\ isSpeaking' = st.isSpeaking
    /\ isLoadingAudio' = st.isLoadingAudio
    /\ quotaExceeded' = st.quotaExceeded
    /\ isExporting' = st.isExporting
    /\ showDropdown' = st.showDropdown
    /\ isRegenerating' = st.isRegenerating
    /\ gestures' = st.gestures
    /\ currentStepRef' = st.currentStepRef
    /\ audioCacheRef' = st.audioCacheRef
    /\ audioLoadingPromisesRef' = st.audioLoadingPromisesRef
    /\ recorder' = st.recorder
    /\ upstream' = st.upstream
    /\ waiters' = st.waiters
    /\ sources' = st.sources
    /\ timers' = st.timers
    /\ searches' = st.searches
    /\ regenerations' = st.regenerations
    /\ exportSession' = st.exportSession
    /\ lastCall' = st.lastCall
    /\ lastSettle' = st.lastSettle
    /\ lastDiscarded' = st.lastDiscarded

\* The values a callback closes over: the render's steps and quotaExceeded.
Closure(st) == [steps |-> st.steps, quota |-> st.quotaExceeded]

\* steps[index], index 0-based (undefined: no such step)
HasStep(list, index) == index >= 0 /\ index < Len(list)

StepAt(list, index) == list[index + 1]

----------------------------------------------------------------------------
(* App: audio *)

\* stopSpeaking: stops the source activeSourceRef points to (its ended event
\* comes later) and clears the reference.
stopSpeaking(st) ==
    [st EXCEPT
        !.sources = [i \in DOMAIN st.sources |->
                        IF st.sources[i].ref
                        THEN [st.sources[i] EXCEPT !.ref = FALSE, !.state = "stopped"]
                        ELSE st.sources[i]],
        !.isSpeaking = FALSE]

Result(kind, promise, buffer) == [kind |-> kind, promise |-> promise, buffer |-> buffer]

\* What one ensureAudioLoaded call did: the narration asked for, the outcome,
\* the promise or buffer returned, and what was in flight and cached before it.
CallLog(st, narration, outcome, promise, buffer) ==
    [narration |-> narration, outcome |-> outcome, promise |-> promise,
     buffer |-> buffer,
     sameInflight |-> { c.id : c \in { u \in st.upstream :
                                        SameNarration(u.narration, narration) } },
     sameCached |-> { k \in DOMAIN st.audioCacheRef :
                        /\ st.audioCacheRef[k] # NoBuffer
                        /\ SameNarration(st.audioCacheRef[k], narration) }]

Logged(st, narration, outcome, promise, buffer) ==
    [st EXCEPT !.lastCall = Append(@, CallLog(st, narration, outcome, promise, buffer))]

\* The identity of a new promise: the least number no promise in flight has.
FreshId(st) ==
    CHOOSE n \in 1..(Cardinality(st.upstream) + 1) :
        /\ \A c \in st.upstream : c.id # n
        /\ \A m \in 1..(n - 1) : \E c \in st.upstream : c.id = m

\* ensureAudioLoaded(index), called with the closure cl: the state it leaves and
\* what the caller's await will get.
ensureAudioLoaded(st, cl, index) ==
    IF cl.quota
    THEN [st |-> Logged(st, IF HasStep(cl.steps, index)
                            THEN Narration(StepAt(cl.steps, index)) ELSE NoBuffer,
                        "quota", 0, NoBuffer),
          res |-> Result("reject", 0, NoBuffer)]
    ELSE IF ~HasStep(cl.steps, index)
    THEN [st |-> Logged(st, NoBuffer, "nostep", 0, NoBuffer),
          res |-> Result("reject", 0, NoBuffer)]
    ELSE
    LET step == StepAt(cl.steps, index)
        key == getAudioKey(step)
        inflight == st.audioLoadingPromisesRef[key]
    IN  IF st.audioCacheRef[key] # NoBuffer
        THEN [st |-> Logged(st, Narration(step), "cached", 0, st.audioCacheRef[key]),
              res |-> Result("value", 0, st.audioCacheRef[key])]
        ELSE IF inflight # 0
        THEN [st |-> Logged(st, Narration(step), "joined", inflight, NoBuffer),
              res |-> Result("promise", inflight, NoBuffer)]
        ELSE LET id == FreshId(st)
                 s1 == Logged(st, Narration(step), "issued", id, NoBuffer)
             IN
             [st |-> [s1 EXCEPT
                        !.upstream = @ \cup {[id |-> id, key |-> key,
                                              narration |-> Narration(step),
                                              afterQuota |-> st.quotaExceeded]},
                        !.audioLoadingPromisesRef[key] = id],
              res |-> Result("promise", id, NoBuffer)]

\* A started source node: who started it, for which step, with which buffer, whether
\* it feeds the capture sink, whether activeSourceRef points to it, and the index
\* of the step that was displayed when it was started.
Source(origin, index, buffer, toDest, ref, shown) ==
    [origin |-> origin, index |-> index, buffer |-> buffer, toDest |-> toDest,
     ref |-> ref, state |-> "playing", shown |-> shown]

\* A mutation of PlayResume: no staleness check.
PlayResume_NoCheck(st, index, buffer) ==
    [st EXCEPT
        !.isLoadingAudio = FALSE,
        !.sources = Append([i \in DOMAIN st.sources |->
                               [st.sources[i] EXCEPT !.ref = FALSE]],
                           Source("play", index, buffer, FALSE, TRUE,
                                  st.currentStepIndex)),
        !.isSpeaking = TRUE]

\* playAudioForStep after `await ensureAudioLoaded(index)` returned a buffer.
PlayResume(st, index, buffer) ==
    IF index # st.currentStepRef
    THEN [st EXCEPT !.lastDiscarded = Append(@, index)]
    ELSE [st EXCEPT
            !.isLoadingAudio = FALSE,
            !.sources = Append([i \in DOMAIN st.sources |->
                                   [st.sources[i] EXCEPT !.ref = FALSE]],
                               Source("play", index, buffer, FALSE, TRUE,
                                      st.currentStepIndex)),
            !.isSpeaking = TRUE]

\* playAudioForStep: the catch block.
PlayFailed(st, index) ==
    IF index = st.currentStepRef
    THEN [st EXCEPT !.isLoadingAudio = FALSE, !.isSpeaking = FALSE]
    ELSE st

PlayWaiter(index, promise) ==
    [kind |-> "play", index |-> index, promise |-> promise]

\* playAudioForStep(index), called with the closure cl, up to its await.
playAudioForStep(st, cl, index) ==
    IF ~HasStep(cl.steps, index) \/ cl.quota THEN st
    ELSE
    LET s1 == stopSpeaking(st)
        key == getAudioKey(StepAt(cl.steps, index))
        s2 == IF s1.audioCacheRef[key] = NoBuffer
              THEN [s1 EXCEPT !.isLoadingAudio = TRUE] ELSE s1
        r == ensureAudioLoaded(s2, cl, index)
    IN  CASE r.res.kind = "value" -> PlayResume(r.st, index, r.res.buffer)
          [] r.res.kind = "reject" -> PlayFailed(r.st, index)
          [] OTHER -> [r.st EXCEPT !.waiters = Append(@, PlayWaiter(index, r.res.promise))]

----------------------------------------------------------------------------
(* App: the effects React runs after a handler changed the state *)

Timer(kind, index, delay) == [kind |-> kind, index |-> index, delay |-> delay]

WithoutTimers(ts, kind) == { t \in ts : t.kind # kind }

\* A mutation of PrefetchEffect: currentStepIndex is not a dependency.
PrefetchEffect_NoIndexDep(old, st) ==
    IF /\ st.appState = old.appState
       /\ ~st.stepsSet
       /\ st.quotaExceeded = old.quotaExceeded
    THEN st
    ELSE [st EXCEPT !.timers =
            WithoutTimers(@, "prefetch") \cup
            (IF st.appState = "SUCCESS" /\ Len(st.steps) > 0 /\ ~st.quotaExceeded
             THEN {Timer("prefetch", st.currentStepIndex, PREFETCH_DELAY)}
             ELSE {})]

\* The pre-fetch effect, deps [currentStepIndex, appState, steps, ensureAudioLoaded,
\* quotaExceeded]: its cleanup clears the timer, then it may set a new one.
PrefetchEffect(old, st) ==
    IF /\ st.currentStepIndex = old.currentStepIndex
       /\ st.appState = old.appState
       /\ ~st.stepsSet
       /\ st.quotaExceeded = old.quotaExceeded
    THEN st
    ELSE [st EXCEPT !.timers =
            WithoutTimers(@, "prefetch") \cup
            (IF st.appState = "SUCCESS" /\ Len(st.steps) > 0 /\ ~st.quotaExceeded
             THEN {Timer("prefetch", st.currentStepIndex, PREFETCH_DELAY)}
             ELSE {})]

\* The auto-play effect, deps [currentStepIndex, appState, steps, isExporting,
\* playAudioForStep, quotaExceeded].
AutoPlayEffect(old, st) ==
    IF /\ st.currentStepIndex = old.currentStepIndex
       /\ st.appState = old.appState
       /\ ~st.stepsSet
       /\ st.quotaExceeded = old.quotaExceeded
       /\ st.isExporting = old.isExporting
    THEN st
    ELSE [st EXCEPT !.timers =
            WithoutTimers(@, "autoplay") \cup
            (IF /\ st.appState = "SUCCESS" /\ Len(st.steps) > 0
                /\ ~st.isExporting /\ ~st.quotaExceeded
             THEN {Timer("autoplay", st.currentStepIndex, AUTOPLAY_DELAY)}
             ELSE {})]

\* useEffect(() => { currentStepRef.current = currentStepIndex }, [currentStepIndex])
SyncRefEffect(st) == [st EXCEPT !.currentStepRef = st.currentStepIndex]

\* The render that follows a handler and the effects of that render.
Render(old, st) == AutoPlayEffect(old, PrefetchEffect(old, SyncRefEffect(st)))

\* A handler ran from the state Cur and left st.
Commit(st) ==
    \E next \in {Render(Cur, st)} :
        /\ Len(next.sources) <= MaxSources
        /\ Len(next.waiters) <= MaxWaiters
        /\ Apply(next)

\* The handler of a user gesture ran from the state Cur and left st.
UserCommit(st) ==
    /\ gestures < MaxGestures
    /\ Commit([st EXCEPT !.gestures = @ + 1])

\* setSteps(list)
setSteps(st, list) == [st EXCEPT !.steps = list, !.stepsSet = TRUE]

----------------------------------------------------------------------------
(* App: interactive playback *)

\* The auto-play timer: playAudioForStep(currentStepIndex)
AutoPlayTimerFire ==
    \E t \in timers :
        /\ t.kind = "autoplay"
        /\ Commit(playAudioForStep([Cur EXCEPT !.timers = @ \ {t}], Closure(Cur), t.index))
        /\ UNCHANGED <<canvasVars, storageVars>>

\* The pre-fetch timer: ensureAudioLoaded(currentStepIndex + 1).catch(() => {})
PrefetchTimerFire ==
    \E t \in timers :
        /\ t.kind = "prefetch"
        /\ LET s1 == [Cur EXCEPT !.timers = @ \ {t}] IN
           IF t.index + 1 < Len(steps)
           THEN Commit(ensureAudioLoaded(s1, Closure(Cur), t.index + 1).st)
           ELSE Commit(s1)
        /\ UNCHANGED <<canvasVars, storageVars>>

\* The audio button (disabled while exporting or out of quota).
ToggleSpeech ==
    /\ appState = "SUCCESS" /\ HasStep(steps, currentStepIndex)
    /\ ~isExporting /\ ~quotaExceeded
    /\ IF isSpeaking
       THEN UserCommit(stopSpeaking(Cur))
       ELSE UserCommit(playAudioForStep(Cur, Closure(Cur), currentStepIndex))
    /\ UNCHANGED <<canvasVars, storageVars>>

\* A source of interactive playback reached the end of its buffer, or the ended
\* event of a stopped one is dispatched: source.onended.
PlaySourceEnded ==
    \E i \in DOMAIN sources :
        /\ sources[i].origin = "play"
        /\ LET rest == [j \in 1..(Len(sources) - 1) |->
                            IF j < i THEN sources[j] ELSE sources[j + 1]] IN
           Commit([Cur EXCEPT
                     !.sources = [j \in DOMAIN rest |-> [rest[j] EXCEPT !.ref = FALSE]],
                     !.isSpeaking = FALSE])
        /\ UNCHANGED <<canvasVars, storageVars>>

----------------------------------------------------------------------------
(* App: video export.  exportSession holds the closure of the running       *)
(* handleExportVideo call (steps, and quotaExceeded through                 *)
(* ensureAudioLoaded), what the preparation loop did for each step, and the *)
(* starts and ends of the sources fed to the capture sink.  A session that  *)
(* ended in the catch block keeps its record with the phase "aborted".      *)
(* seq counts the sessions started so far, alerts the alert() calls of the  *)
(* session, elapsed the time the playExportStep chain has taken since       *)
(* recorder.start() when every timer fires when it is due, and replays the  *)
(* steps whose animation the chain has replayed.  sink is the capture sink  *)
(* (the MediaStreamDestination node) of the latest session: "open" from    *)
(* its creation until something disconnects it.                             *)

NoSession == [phase |-> "none", steps |-> <<>>, quota |-> FALSE, prep |-> <<>>,
              log |-> <<>>, seq |-> 0, alerts |-> 0, elapsed |-> 0, replays |-> {},
              sink |-> "none"]

\* buffer.duration, in ms: the longer the text, the longer its audio.
Duration(buffer) == 1000 * (Len(buffer.title) + Len(buffer.description))

\* The view renders <SketchCanvas ref={canvasRef}>: canvasRef.current is not null.
CanvasRendered(st) == st.appState = "SUCCESS" /\ HasStep(st.steps, st.currentStepIndex)

SessionClosure(st) == [steps |-> st.exportSession.steps, quota |-> st.exportSession.quota]

ExportWaiter(index, promise) ==
    [kind |-> "export", index |-> index, promise |-> promise]

\* A mutation of playExportStep: the recorder is stopped without the trailing hold.
playExportStep_NoTail(st, index) ==
    IF index >= Len(st.exportSession.steps)
    THEN [st EXCEPT !.timers = @ \cup {Timer("exportStop", index, 0)}]
    ELSE [st EXCEPT !.currentStepIndex = index,
                    !.timers = @ \cup {Timer("exportSettle", index, EXPORT_SETTLE_DELAY)}]

\* playExportStep(index)
playExportStep(st, index) ==
    IF index >= Len(st.exportSession.steps)
    THEN [st EXCEPT !.timers = @ \cup {Timer("exportStop", index, EXPORT_TAIL)}]
    ELSE [st EXCEPT !.currentStepIndex = index,
                    !.timers = @ \cup {Timer("exportSettle", index, EXPORT_SETTLE_DELAY)}]

\* A mutation of ExportFailed: the catch block does not reset isExporting.
ExportFailed_StillExporting(st) ==
    [st EXCEPT !.exportSession.phase = "aborted", !.exportSession.alerts = @ + 1]

\* The catch block of handleExportVideo: setIsExporting(false), alert(...).
ExportFailed(st) ==
    [st EXCEPT !.isExporting = FALSE, !.exportSession.phase = "aborted",
               !.exportSession.alerts = @ + 1]

\* handleExportVideo after the preparation loop: the recorder is set up and started
\* (canvasOk: the canvas element exists; recorderOk: MediaRecorder did not throw).
ExportSetup(st, recorderOk) ==
    LET canvasOk == st.appState = "SUCCESS" /\ HasStep(st.steps, st.currentStepRef) IN
    IF canvasOk /\ recorderOk
    THEN playExportStep([st EXCEPT !.recorder = "recording",
                                   !.exportSession.phase = "recording"], 0)
    ELSE ExportFailed(st)

Noted(st, what) == [st EXCEPT !.exportSession.prep = Append(@, what)]

\* A mutation of ExportPrepCaught: a failed step aborts the export.
ExportPrepCaught_Abort(st, i, recorderOk) == ExportFailed(st)

\* The preparation loop of handleExportVideo from step i on, up to its next await.
RECURSIVE ExportPrepLoop(_, _, _)
\* catch (e) { console.warn(...) }: the loop goes on with the next step.
ExportPrepCaught(st, i, recorderOk) == ExportPrepLoop(st, i + 1, recorderOk)

ExportPrepLoop(st, i, recorderOk) ==
    LET cl == SessionClosure(st) IN
    IF i >= Len(cl.steps) THEN ExportSetup(st, recorderOk)
    ELSE IF st.audioCacheRef[getAudioKey(StepAt(cl.steps, i))] # NoBuffer
    THEN ExportPrepLoop(Noted(st, "cached"), i + 1, recorderOk)
    ELSE LET r == ensureAudioLoaded(st, cl, i) IN
         CASE r.res.kind = "reject" ->
                ExportPrepCaught(Noted(r.st, "rejected"), i, recorderOk)
           [] r.res.kind = "value" ->
                ExportPrepLoop(Noted(r.st, "cached"), i + 1, recorderOk)
           [] OTHER ->
                [r.st EXCEPT !.waiters = Append(@, ExportWaiter(i, r.res.promise))]

\* A mutation of HandleExportVideo: no isExporting guard (and the button is not
\* disabled while an export runs).
HandleExportVideo_NoGuard ==
    \E recorderOk \in BOOLEAN :
        /\ appState = "SUCCESS"
        /\ Len(steps) > 0
        /\ LET s1 == stopSpeaking(Cur)
               s2 == [s1 EXCEPT !.isExporting = TRUE,
                                !.exportSession = [phase |-> "prep", steps |-> steps,
                                                   quota |-> quotaExceeded,
                                                   prep |-> <<>>, log |-> <<>>,
                                                   seq |-> exportSession.seq + 1,
                                                   alerts |-> 0, elapsed |-> 0,
                                                   replays |-> {}, sink |-> "open"]]
           IN UserCommit(ExportPrepLoop(s2, 0, recorderOk))
        /\ UNCHANGED <<canvasVars, storageVars>>

\* The export button (shown in the success view, disabled while exporting).
HandleExportVideo ==
    \E recorderOk \in BOOLEAN :
        /\ appState = "SUCCESS"
        /\ Len(steps) > 0 /\ ~isExporting
        /\ LET s1 == stopSpeaking(Cur)
               s2 == [s1 EXCEPT !.isExporting = TRUE,
                                !.exportSession = [phase |-> "prep", steps |-> steps,
                                                   quota |-> quotaExceeded,
                                                   prep |-> <<>>, log |-> <<>>,
                                                   seq |-> exportSession.seq + 1,
                                                   alerts |-> 0, elapsed |-> 0,
                                                   replays |-> {}, sink |-> "open"]]
           IN UserCommit(ExportPrepLoop(s2, 0, recorderOk))
        /\ UNCHANGED <<canvasVars, storageVars>>

\* A mutation of ExportStart: the next step is scheduled when the source starts.
ExportStart_NoWait(st, index, buffer) ==
    [st EXCEPT
        !.sources = Append(@, Source("export", index, buffer, TRUE, FALSE,
                                     st.currentStepIndex)),
        !.timers = @ \cup {Timer("exportNext", index + 1, EXPORT_PAUSE)},
        !.exportSession.log = Append(@, <<"start", index>>)]

\* The step has a buffer: a source connected to the capture sink and to the
\* speakers is started; the next step is scheduled by its onended only.
ExportStart(st, index, buffer) ==
    [st EXCEPT
        !.sources = Append(@, Source("export", index, buffer, TRUE, FALSE,
                                     st.currentStepIndex)),
        !.exportSession.log = Append(@, <<"start", index>>)]

\* A mutation of ExportSettleTimerFire: a step without a buffer is left at once.
ExportSettleTimerFire_NoHold ==
    \E t \in timers :
        /\ t.kind = "exportSettle"
        /\ LET s1 == [Cur EXCEPT !.timers = @ \ {t},
                                 !.exportSession.elapsed = @ + t.delay,
                                 !.exportSession.replays =
                                     IF CanvasRendered(Cur) THEN @ \cup {t.index} ELSE @]
               buffer == audioCacheRef[getAudioKey(StepAt(exportSession.steps, t.index))]
           IN IF buffer # NoBuffer
              THEN Commit(ExportStart(s1, t.index, buffer))
              ELSE Commit(playExportStep(s1, t.index + 1))
        /\ UNCHANGED <<canvasVars, storageVars>>

\* A mutation of ExportSettleTimerFire: a step without a buffer schedules nothing.
ExportSettleTimerFire_NoFallback ==
    \E t \in timers :
        /\ t.kind = "exportSettle"
        /\ LET s1 == [Cur EXCEPT !.timers = @ \ {t},
                                 !.exportSession.elapsed = @ + t.delay,
                                 !.exportSession.replays =
                                     IF CanvasRendered(Cur) THEN @ \cup {t.index} ELSE @]
               buffer == audioCacheRef[getAudioKey(StepAt(exportSession.steps, t.index))]
           IN IF buffer # NoBuffer
              THEN Commit(ExportStart(s1, t.index, buffer))
              ELSE Commit(s1)
        /\ UNCHANGED <<canvasVars, storageVars>>

\* The callback of the 100 ms timer t of playExportStep, in the App: the replay is
\* asked for, the step's audio is started or the fallback hold is set.
ExportSettle(t) ==
    LET s1 == [Cur EXCEPT !.timers = @ \ {t},
                          !.exportSession.elapsed = @ + t.delay,
                          !.exportSession.replays =
                              IF CanvasRendered(Cur) THEN @ \cup {t.index} ELSE @]
        buffer == audioCacheRef[getAudioKey(StepAt(exportSession.steps, t.index))]
    IN IF buffer # NoBuffer
       THEN Commit(ExportStart(s1, t.index, buffer))
       ELSE Commit([s1 EXCEPT
              !.timers = @ \cup {Timer("exportNext", t.index + 1,
                                       EXPORT_FALLBACK_HOLD)}])

\* The 100 ms timer of playExportStep: replay the canvas, start the step's audio or
\* hold for the fallback duration.
ExportSettleTimerFire ==
    \E t \in timers :
        /\ t.kind = "exportSettle"
        /\ ExportSettle(t)
        /\ UNCHANGED <<canvasVars, storageVars>>

\* source.onended of the export source i, in the App: the 1000 ms timer is set.
ExportEnded(i) ==
    LET rest == [j \in 1..(Len(sources) - 1) |->
                     IF j < i THEN sources[j] ELSE sources[j + 1]] IN
    Commit([Cur EXCEPT
              !.sources = rest,
              !.timers = @ \cup {Timer("exportNext", sources[i].index + 1,
                                       EXPORT_PAUSE)},
              !.exportSession.elapsed = @ + Duration(sources[i].buffer),
              !.exportSession.log = Append(@, <<"end", sources[i].index>>)])

\* The source of an export step ended: source.onended sets the 1000 ms timer.
ExportSourceEnded ==
    \E i \in DOMAIN sources :
        /\ sources[i].origin = "export"
        /\ ExportEnded(i)
        /\ UNCHANGED <<canvasVars, storageVars>>

\* The callback of the timer t that leads to the next step, in the App.
ExportNext(t) ==
    Commit(playExportStep([Cur EXCEPT !.timers = @ \ {t},
                                      !.exportSession.elapsed = @ + t.delay],
                          t.index))

\* setTimeout(() => playExportStep(index + 1), ...)
ExportNextTimerFire ==
    \E t \in timers :
        /\ t.kind = "exportNext"
        /\ ExportNext(t)
        /\ UNCHANGED <<canvasVars, storageVars>>

\* The callback of the timer t that stops the recorder, in the App.
ExportStop(t) ==
    Commit([Cur EXCEPT !.timers = @ \ {t},
                       !.exportSession.elapsed = @ + t.delay,
                       !.recorder = IF @ = "recording" THEN "stopping" ELSE @])

\* setTimeout(() => mediaRecorderRef.current?.stop(), 1000)
ExportStopTimerFire ==
    \E t \in timers :
        /\ t.kind = "exportStop"
        /\ ExportStop(t)
        /\ UNCHANGED <<canvasVars, storageVars>>

\* recorder.onstop
RecorderOnStop ==
    /\ recorder = "stopping"
    /\ Commit([Cur EXCEPT !.recorder = "none", !.isExporting = FALSE,
                          !.exportSession = [NoSession EXCEPT !.seq = exportSession.seq,
                                                             !.sink = exportSession.sink]])
    /\ UNCHANGED <<canvasVars, storageVars>>

----------------------------------------------------------------------------
(* App: a generateSpeech call settles *)

\* A mutation of SpeechSettled: every failure sets the quota flag.
SpeechSettled_QuotaOnAnyFailure(st, c, outcome) ==
    LET s1 == IF outcome = "ok"
              THEN [st EXCEPT !.audioCacheRef[c.key] = Buffer(c.narration)]
              ELSE [st EXCEPT !.quotaExceeded = TRUE]
    IN [s1 EXCEPT !.audioLoadingPromisesRef[c.key] = 0,
                  !.upstream = @ \ {c}]

\* A mutation of SpeechSettled: the pending entry is removed on success only.
SpeechSettled_KeepPendingOnFailure(st, c, outcome) ==
    LET s1 == IF outcome = "ok"
              THEN [st EXCEPT !.audioCacheRef[c.key] = Buffer(c.narration),
                              !.audioLoadingPromisesRef[c.key] = 0]
              ELSE IF outcome = "429"
              THEN [st EXCEPT !.quotaExceeded = TRUE]
              ELSE st
    IN [s1 EXCEPT !.upstream = @ \ {c}]

\* The promise of ensureAudioLoaded: try / catch / finally around generateSpeech.
\* outcome: "ok", "429" (rate limit) or "error".
SpeechSettled(st, c, outcome) ==
    LET s1 == IF outcome = "ok"
              THEN [st EXCEPT !.audioCacheRef[c.key] = Buffer(c.narration)]
              ELSE IF outcome = "429"
              THEN [st EXCEPT !.quotaExceeded = TRUE]
              ELSE st
    IN [s1 EXCEPT !.audioLoadingPromisesRef[c.key] = 0,
                  !.upstream = @ \ {c}]

\* What one settled call did: the call, the outcome, the continuations that
\* awaited its promise, and those of them whose await threw.
Settled(st, c, outcome, awaiting) ==
    [st EXCEPT !.lastSettle = <<[call |-> c, outcome |-> outcome,
                                 awaiting |-> awaiting, rejected |-> <<>>]>>]

Rejected(st, w) == [st EXCEPT !.lastSettle[1].rejected = Append(@, w)]

\* The continuations that awaited the promise run, in the order they awaited it.
RECURSIVE ResumeWaiters(_, _, _, _, _, _)
ResumeWaiters(st, ws, k, buffer, outcome, recorderOk) ==
    IF k > Len(ws) THEN st
    ELSE LET w == ws[k]
             s1 == IF w.kind = "play"
                   THEN IF buffer # NoBuffer
                        THEN PlayResume(st, w.index, buffer)
                        ELSE PlayFailed(Rejected(st, w), w.index)
                   ELSE IF buffer # NoBuffer
                        THEN ExportPrepLoop(Noted(st, "ok"), w.index + 1, recorderOk)
                        ELSE ExportPrepCaught(Noted(Rejected(st, w),
                                                    IF outcome = "429" THEN "limited"
                                                    ELSE "failed"),
                                              w.index, recorderOk)
         IN ResumeWaiters(s1, ws, k + 1, buffer, outcome, recorderOk)

SpeechSettle ==
    \E c \in upstream, outcome \in {"ok", "429", "error"}, recorderOk \in BOOLEAN :
        LET s1 == SpeechSettled(Cur, c, outcome)
            mine == SelectSeq(waiters, LAMBDA w : w.promise = c.id)
            others == SelectSeq(waiters, LAMBDA w : w.promise # c.id)
            s2 == Settled([s1 EXCEPT !.waiters = others], c, outcome, mine)
        IN
        /\ Commit(ResumeWaiters(s2, mine, 1,
                                IF outcome = "ok" THEN s1.audioCacheRef[c.key] ELSE NoBuffer,
                                outcome, recorderOk))
        /\ UNCHANGED <<canvasVars, storageVars>>

----------------------------------------------------------------------------
(* App: navigation, search, history *)

\* A mutation of OnNext: leaving the step abandons the loads in flight.
OnNext_CancelsLoads ==
    /\ appState = "SUCCESS" /\ HasStep(steps, currentStepIndex)
    /\ currentStepIndex # Len(steps) - 1
    /\ IF isExporting THEN UserCommit(Cur)
       ELSE LET s1 == stopSpeaking(Cur)
                n == IF s1.currentStepIndex + 1 < Len(steps) - 1
                     THEN s1.currentStepIndex + 1 ELSE Len(steps) - 1
            IN UserCommit([s1 EXCEPT !.currentStepIndex = n,
                                     !.upstream = {},
                                     !.waiters = <<>>,
                                     !.audioLoadingPromisesRef = [k \in AllKeys |-> 0]])
    /\ UNCHANGED <<canvasVars, storageVars>>

\* StepControls onNext (the button is disabled on the last step)
OnNext ==
    /\ appState = "SUCCESS" /\ HasStep(steps, currentStepIndex)
    /\ currentStepIndex # Len(steps) - 1
    /\ IF isExporting THEN UserCommit(Cur)
       ELSE LET s1 == stopSpeaking(Cur)
                n == IF s1.currentStepIndex + 1 < Len(steps) - 1
                     THEN s1.currentStepIndex + 1 ELSE Len(steps) - 1
            IN UserCommit([s1 EXCEPT !.currentStepIndex = n])
    /\ UNCHANGED <<canvasVars, storageVars>>

\* StepControls onPrev (the button is disabled on the first step)
OnPrev ==
    /\ appState = "SUCCESS" /\ HasStep(steps, currentStepIndex)
    /\ currentStepIndex # 0
    /\ IF isExporting THEN UserCommit(Cur)
       ELSE LET s1 == stopSpeaking(Cur)
                n == IF s1.currentStepIndex - 1 > 0 THEN s1.currentStepIndex - 1 ELSE 0
            IN UserCommit([s1 EXCEPT !.currentStepIndex = n])
    /\ UNCHANGED <<canvasVars, storageVars>>

\* StepControls onReset (success view) and the logo click (always shown)
OnReset ==
    /\ IF isExporting THEN UserCommit(Cur)
       ELSE UserCommit([stopSpeaking(Cur) EXCEPT !.appState = "IDLE"])
    /\ UNCHANGED <<canvasVars, storageVars>>

\* The "Try Again" button of the error view: setAppState(AppState.IDLE)
TryAgain ==
    /\ appState = "ERROR"
    /\ UserCommit([Cur EXCEPT !.appState = "IDLE"])
    /\ UNCHANGED <<canvasVars, storageVars>>

\* The header search input gets the focus (it is disabled while loading or
\* exporting; the header form is not shown in the idle view).
FocusInput ==
    /\ appState \in {"SUCCESS", "ERROR"} /\ ~isExporting
    /\ ~showDropdown
    /\ UserCommit([Cur EXCEPT !.showDropdown = TRUE])
    /\ UNCHANGED <<canvasVars, storageVars>>

\* onBlur: setTimeout(() => setShowDropdown(false), 200), and the timer fired.
BlurInput ==
    /\ showDropdown
    /\ Commit([Cur EXCEPT !.showDropdown = FALSE])
    /\ UNCHANGED <<canvasVars, storageVars>>

\* handleSearch up to `await generateSketchSteps(query)`: the idle form, or the
\* header form (its submit button is disabled while exporting).
HandleSearch ==
    \E q \in Queries :
        /\ ~isExporting
        /\ LET s1 == stopSpeaking(Cur)
               s2 == setSteps([s1 EXCEPT !.quotaExceeded = FALSE,
                                         !.showDropdown = FALSE,
                                         !.appState = "LOADING",
                                         !.currentStepIndex = 0,
                                         !.searches = @ \cup {q}], <<>>)
           IN UserCommit(s2)
        /\ UNCHANGED <<canvasVars, storageVars>>

\* handleSearch after the await: the planner answered with a step list, or failed.
SearchSettle ==
    \E q \in searches, list \in StepLists \cup {<<>>} :
        /\ LET s1 == [Cur EXCEPT !.searches = @ \ {q}] IN
           IF list # <<>>
           THEN Commit([setSteps(s1, list) EXCEPT !.appState = "SUCCESS"])
           ELSE Commit([s1 EXCEPT !.appState = "ERROR"])
        /\ UNCHANGED <<canvasVars, storageVars>>

\* loadHistoryItem(item): an item of the idle view's list, or of the header
\* dropdown while it is shown.  sameArray: item.steps is the array the steps state
\* already holds (the item was loaded before), so setSteps changes nothing.
LoadHistoryItem ==
    \E list \in StepLists, sameArray \in BOOLEAN :
        /\ \/ appState = "IDLE"
           \/ appState # "IDLE" /\ showDropdown
        /\ sameArray => list = steps
        /\ LET s1 == stopSpeaking(Cur) IN
           UserCommit([(IF sameArray THEN s1 ELSE setSteps(s1, list)) EXCEPT !.quotaExceeded = FALSE,
                                             !.currentStepIndex = 0,
                                             !.appState = "SUCCESS",
                                             !.showDropdown = FALSE])
        /\ UNCHANGED <<canvasVars, storageVars>>

----------------------------------------------------------------------------
(* App: regeneration of the sketch of the current step *)

\* What regenerateSingleStep resolves to: a new drawing code for the step.
RegeneratedCodes == { <<Instr("ctx", 5, FALSE)>> }

\* The closure of a reGenerateSketch call: the steps and currentStepIndex of the
\* render whose button was pressed.
Regeneration(st) == [steps |-> st.steps, index |-> st.currentStepIndex]

\* reGenerateSketch up to its await: the button belongs to the success view and
\* is disabled while isRegenerating or isExporting; without a current step the
\* handler returns.
ReGenerateSketch ==
    /\ appState = "SUCCESS" /\ HasStep(steps, currentStepIndex)
    /\ ~isRegenerating /\ ~isExporting
    /\ UserCommit([stopSpeaking(Cur) EXCEPT !.isRegenerating = TRUE,
                                            !.regenerations = @ \cup {Regeneration(Cur)}])
    /\ UNCHANGED <<canvasVars, storageVars>>

\* reGenerateSketch after its await: newSteps is a copy of the closure's steps
\* with the code of the closure's current step replaced, setSteps(newSteps); a
\* rejected call is only logged; finally setIsRegenerating(false).
RegenerationSettle ==
    \E r \in regenerations, ok \in BOOLEAN, newCode \in RegeneratedCodes :
        /\ LET s1 == [Cur EXCEPT !.regenerations = @ \ {r}, !.isRegenerating = FALSE]
               newSteps == [r.steps EXCEPT ![r.index + 1].code = newCode]
           IN  Commit(IF ok THEN setSteps(s1, newSteps) ELSE s1)
        /\ UNCHANGED <<canvasVars, storageVars>>

----------------------------------------------------------------------------
(* storageService.  A query is a string: a sequence of characters, each a   *)
(* letter in lower or upper case.  An item is {id, query, steps, timestamp};*)
(* id is the decimal string of Date.now(), kept as the number it denotes.   *)
(* JSON.stringify and JSON.parse give such items back as they were, so the  *)
(* entry holds the list itself.                                             *)

MAX_HISTORY == 20

Char(l, u) == [letter |-> l, upper |-> u]

\* String.prototype.toLowerCase
toLowerCase(str) == [i \in DOMAIN str |-> Char(str[i].letter, FALSE)]

HistoryItem(id, q, list, t) == [id |-> id, query |-> q, steps |-> list, timestamp |-> t]

NoEntry == [present |-> FALSE, items |-> <<>>]

\* getHistory(): the parsed entry, [] when there is none
getHistory(ls) == IF ls.present THEN ls.items ELSE <<>>

\* Array.prototype.slice(0, n)
slice(s, n) == SubSeq(s, 1, IF Len(s) < n THEN Len(s) ELSE n)

\* saveHistoryItem without the cap (the statement differs at line 29).
saveHistoryItem_NoCap(ls, query, list, t) ==
    LET history == getHistory(ls)
        filteredHistory == SelectSeq(history,
                              LAMBDA h : toLowerCase(h.query) # toLowerCase(query))
        newItem == HistoryItem(t, query, list, t)
    IN  [present |-> TRUE, items |-> <<newItem>> \o filteredHistory]

\* saveHistoryItem comparing the queries as typed (the statement differs at line 19).
saveHistoryItem_CaseSensitive(ls, query, list, t) ==
    LET history == getHistory(ls)
        filteredHistory == SelectSeq(history, LAMBDA h : h.query # query)
        newItem == HistoryItem(t, query, list, t)
    IN  [present |-> TRUE, items |-> slice(<<newItem>> \o filteredHistory, MAX_HISTORY)]

\* saveHistoryItem(query, steps) at the time t, when setItem does not throw:
\* the entry it leaves.
saveHistoryItem(ls, query, list, t) ==
    LET history == getHistory(ls)
        filteredHistory == SelectSeq(history,
                              LAMBDA h : toLowerCase(h.query) # toLowerCase(query))
        newItem == HistoryItem(t, query, list, t)
    IN  [present |-> TRUE, items |-> slice(<<newItem>> \o filteredHistory, MAX_HISTORY)]

\* deleteHistoryItem(id) when setItem does not throw: the entry it leaves.
deleteHistoryItem(ls, id) ==
    [present |-> TRUE, items |-> SelectSeq(getHistory(ls), LAMBDA item : item.id # id)]

\* The queries typed in SpecHistory: one stored at the front, one stored at the
\* back, and new ones, each in both cases.
HistoryQueries ==
    { <<Char(l, u)>> : l \in {1, MAX_HISTORY, MAX_HISTORY + 1}, u \in BOOLEAN }

\* A call of saveHistoryItem; the clock has moved on since the previous call, or
\* it has not (two calls within one millisecond).  setItem may throw (the quota
\* of the store is used up): the call is caught and the entry stays.
SaveHistoryItem ==
    \E query \in HistoryQueries, list \in {ListB}, dt \in {0, 1}, setItemOk \in BOOLEAN :
        /\ storageOps < MaxStorageOps
        /\ storageOps' = storageOps + 1
        /\ dateNow' = dateNow + dt
        /\ localStorage' = IF setItemOk
                           THEN saveHistoryItem(localStorage, query, list, dateNow')
                           ELSE localStorage
        /\ lastOp' = [op |-> "save", ok |-> setItemOk, query |-> query, id |-> dateNow']
        /\ UNCHANGED <<canvasVars, appVars>>

\* A call of deleteHistoryItem with the id of a stored item or with another id.
DeleteHistoryItem ==
    \E id \in { getHistory(localStorage)[i].id : i \in DOMAIN getHistory(localStorage) }
               \cup {0}, setItemOk \in BOOLEAN :
        /\ storageOps < MaxStorageOps
        /\ storageOps' = storageOps + 1
        /\ localStorage' = IF setItemOk THEN deleteHistoryItem(localStorage, id)
                           ELSE localStorage
        /\ lastOp' = [op |-> "delete", ok |-> setItemOk, query |-> <<>>, id |-> id]
        /\ UNCHANGED <<dateNow, canvasVars, appVars>>

NoOp == [op |-> "none", ok |-> TRUE, query |-> <<>>, id |-> 0]

\* The store in the specifications that leave it aside.
StorageUnused ==
    /\ localStorage = NoEntry /\ dateNow = 0 /\ storageOps = 0 /\ lastOp = NoOp

----------------------------------------------------------------------------
(* Specifications *)

CanvasAbsent ==
    /\ mounted = FALSE
    /\ code = <<>>
    /\ run = 0
    /\ now = 0
    /\ startedAt = 0
    /\ surface = <<>>
    /\ done = {}
    /\ failed = {}
    /\ lastFrame = <<>>
    /\ rafQueue = <<>>
    /\ error = NoError
    /\ commandQueue = <<>>
    /\ timeoutsRef = <<>>
    /\ pendingTimeouts = {}

\* App after its first render: idle, nothing loaded.
AppIdle ==
    /\ appState = "IDLE"
    /\ steps = <<>>
    /\ currentStepIndex = 0
    /\ isSpeaking = FALSE
    /\ isLoadingAudio = FALSE
    /\ quotaExceeded = FALSE
    /\ isExporting = FALSE
    /\ showDropdown = FALSE
    /\ isRegenerating = FALSE
    /\ gestures = 0
    /\ currentStepRef = 0
    /\ audioCacheRef = [k \in AllKeys |-> NoBuffer]
    /\ audioLoadingPromisesRef = [k \in AllKeys |-> 0]
    /\ recorder = "none"
    /\ upstream = {}
    /\ waiters = <<>>
    /\ sources = <<>>
    /\ timers = {}
    /\ searches = {}
    /\ regenerations = {}
    /\ exportSession = NoSession
    /\ lastCall = <<>>
    /\ lastSettle = <<>>
    /\ lastDiscarded = <<>>

InitApp == AppIdle /\ CanvasAbsent /\ StorageUnused

NextApp ==
    \/ AutoPlayTimerFire
    \/ PrefetchTimerFire
    \/ ToggleSpeech
    \/ PlaySourceEnded
    \/ SpeechSettle
    \/ HandleExportVideo
    \/ ExportSettleTimerFire
    \/ ExportSourceEnded
    \/ ExportNextTimerFire
    \/ ExportStopTimerFire
    \/ RecorderOnStop
    \/ OnNext
    \/ OnPrev
    \/ OnReset
    \/ TryAgain
    \/ FocusInput
    \/ BlurInput
    \/ HandleSearch
    \/ SearchSettle
    \/ LoadHistoryItem

SpecApp == InitApp /\ [][NextApp]_vars

\* The App when the event loop keeps running: a pending timer of the export chain
\* fires, a started source ends and the recorder's stop event is dispatched.
FairApp ==
    /\ WF_vars(PlaySourceEnded)
    /\ WF_vars(ExportSettleTimerFire)
    /\ WF_vars(ExportSourceEnded)
    /\ WF_vars(ExportNextTimerFire)
    /\ WF_vars(ExportStopTimerFire)
    /\ WF_vars(RecorderOnStop)

\* The synthesis service answers: no generateSpeech call stays in flight forever.
SynthesisSettles == []<>(upstream = {})

\* The steps of NextApp, the user making at most MaxLiveGestures gestures.
NextAppLive ==
    \/ AutoPlayTimerFire
    \/ PrefetchTimerFire
    \/ gestures < MaxLiveGestures /\ ToggleSpeech
    \/ PlaySourceEnded
    \/ SpeechSettle
    \/ gestures < MaxLiveGestures /\ HandleExportVideo
    \/ ExportSettleTimerFire
    \/ ExportSourceEnded
    \/ ExportNextTimerFire
    \/ ExportStopTimerFire
    \/ RecorderOnStop
    \/ gestures < MaxLiveGestures /\ OnNext
    \/ gestures < MaxLiveGestures /\ OnPrev
    \/ gestures < MaxLiveGestures /\ OnReset
    \/ gestures < MaxLiveGestures /\ TryAgain
    \/ gestures < MaxLiveGestures /\ FocusInput
    \/ BlurInput
    \/ gestures < MaxLiveGestures /\ HandleSearch
    \/ SearchSettle
    \/ gestures < MaxLiveGestures /\ LoadHistoryItem

SpecAppLive == InitApp /\ [][NextAppLive]_vars /\ FairApp /\ SynthesisSettles

\* The App with the "Regenerate Sketch" button in use as well.
NextRegen ==
    \/ AutoPlayTimerFire
    \/ PrefetchTimerFire
    \/ ToggleSpeech
    \/ PlaySourceEnded
    \/ SpeechSettle
    \/ HandleExportVideo
    \/ ExportSettleTimerFire
    \/ ExportSourceEnded
    \/ ExportNextTimerFire
    \/ ExportStopTimerFire
    \/ RecorderOnStop
    \/ OnNext
    \/ OnPrev
    \/ OnReset
    \/ TryAgain
    \/ FocusInput
    \/ BlurInput
    \/ HandleSearch
    \/ SearchSettle
    \/ LoadHistoryItem
    \/ ReGenerateSketch
    \/ RegenerationSettle

SpecRegen == InitApp /\ [][NextRegen]_vars

----------------------------------------------------------------------------
(* The canvas on its own: the code prop changes, replay() is called, the   *)
(* timers and animation frames run, the component unmounts.                *)

\* The loader alone: ensureAudioLoaded called by any client with the closure of
\* the latest render, for an existing step or an index past the list, and the
\* generateSpeech calls settling.  The view stays idle with a step list loaded
\* (the state after onReset), so no effect timer is armed.
LoaderCall ==
    /\ \E index \in 0..Len(steps) :
          Apply(ensureAudioLoaded(Cur, Closure(Cur), index).st)
    /\ UNCHANGED <<canvasVars, storageVars>>

InitLoader ==
    /\ \E list \in StepLists : steps = list
    /\ appState = "IDLE" /\ currentStepIndex = 0 /\ currentStepRef = 0
    /\ isSpeaking = FALSE /\ isLoadingAudio = FALSE /\ quotaExceeded = FALSE
    /\ isExporting = FALSE /\ showDropdown = FALSE /\ gestures = 0
    /\ isRegenerating = FALSE /\ regenerations = {}
    /\ audioCacheRef = [k \in AllKeys |-> NoBuffer]
    /\ audioLoadingPromisesRef = [k \in AllKeys |-> 0]
    /\ recorder = "none" /\ upstream = {} /\ waiters = <<>> /\ sources = <<>>
    /\ timers = {} /\ searches = {} /\ exportSession = NoSession
    /\ lastCall = <<>> /\ lastSettle = <<>> /\ lastDiscarded = <<>>
    /\ CanvasAbsent /\ StorageUnused

NextLoader ==
    \/ LoaderCall
    \/ SpeechSettle

SpecLoader == InitLoader /\ [][NextLoader]_vars


InitCanvas ==
    \E c \in Codes :
        LET cap == Capture(c) IN
        /\ mounted = TRUE
        /\ code = c
        /\ run = 1
        /\ now = 0
        /\ startedAt = 0
        /\ surface = <<WhiteFill>> \o cap.direct
        /\ done = {}
        /\ failed = {}
        /\ lastFrame = <<>>
        /\ rafQueue = <<>>
        /\ error = IF cap.threw THEN DrawError ELSE NoError
        /\ commandQueue = IF cap.threw THEN drawText(cap.queue, ErrorNotice) ELSE cap.queue
        /\ timeoutsRef = IF cap.threw THEN <<>>
                         ELSE [i \in 1..Len(cap.queue) |-> <<1, i>>]
        /\ pendingTimeouts = IF cap.threw THEN {} ELSE ScheduleTimers(cap.queue, 1, 0)
        /\ AppIdle /\ StorageUnused

NextCanvas ==
    \/ CodeChange /\ UNCHANGED <<appVars, storageVars>>
    \/ Replay /\ UNCHANGED <<appVars, storageVars>>
    \/ Unmount /\ UNCHANGED <<appVars, storageVars>>
    \/ StaggerTimerFire /\ UNCHANGED <<appVars, storageVars>>
    \/ AnimationFrame /\ UNCHANGED <<appVars, storageVars>>

SpecCanvas == InitCanvas /\ [][NextCanvas]_vars

----------------------------------------------------------------------------
(* The canvas during an export: the playExportStep chain of Part II drives  *)
(* the canvas of Part I on one clock.  The recorder was started at time 0;  *)
(* exportSession.elapsed is the time of the latest event of the chain, so   *)
(* the pending event of the chain is due at elapsed plus its delay (for a   *)
(* playing source: plus the duration of its buffer).  A stagger timer that  *)
(* is due no later than the chain's event fires before it, and an animation *)
(* frame runs before the next timer or event.                               *)

\* The code of a step that draws n shapes with rc.
LongCode == [i \in 1..LongCodeLen |-> Instr("rc", 1, FALSE)]

LongList ==
    << Step(<<"a">>, <<"x">>, LongCode),
       Step(<<"b">>, <<"y">>, <<Instr("drawText", 4, FALSE)>>) >>

ExportLists == {ListA, LongList}

\* The cache after the preparation loop loaded every narration of the list.
PreparedCache(list) ==
    [k \in AllKeys |->
        IF \E i \in DOMAIN list : getAudioKey(list[i]) = k
        THEN LET first == CHOOSE i \in DOMAIN list :
                            /\ getAudioKey(list[i]) = k
                            /\ \A j \in DOMAIN list : getAudioKey(list[j]) = k => i <= j
             IN  Buffer(Narration(list[first]))
        ELSE NoBuffer]

\* Step 0 is displayed and its animation is over; handleExportVideo has prepared
\* the audio (every narration is cached, or none is and the quota is used up),
\* started the recorder and called playExportStep(0).
InitExportCanvas ==
    \E list \in ExportLists, cached \in BOOLEAN :
        LET cap == Capture(list[1].code) IN
        /\ appState = "SUCCESS" /\ steps = list
        /\ currentStepIndex = 0 /\ currentStepRef = 0
        /\ isSpeaking = FALSE /\ isLoadingAudio = FALSE
        /\ quotaExceeded = ~cached
        /\ isExporting = TRUE /\ showDropdown = FALSE /\ isRegenerating = FALSE
        /\ gestures = 0
        /\ audioCacheRef = IF cached THEN PreparedCache(list)
                                     ELSE [k \in AllKeys |-> NoBuffer]
        /\ audioLoadingPromisesRef = [k \in AllKeys |-> 0]
        /\ recorder = "recording"
        /\ upstream = {} /\ waiters = <<>> /\ sources = <<>>
        /\ timers = {Timer("exportSettle", 0, EXPORT_SETTLE_DELAY)}
        /\ searches = {} /\ regenerations = {}
        /\ exportSession =
              [phase |-> "recording", steps |-> list, quota |-> FALSE,
               prep |-> [i \in DOMAIN list |-> IF cached THEN "cached" ELSE "rejected"],
               log |-> <<>>, seq |-> 1, alerts |-> 0, elapsed |-> 0, replays |-> {},
               sink |-> "open"]
        /\ lastCall = <<>> /\ lastSettle = <<>> /\ lastDiscarded = <<>>
        /\ mounted = TRUE /\ code = list[1].code /\ run = 1
        /\ now = 0 /\ startedAt = 0
        /\ commandQueue = cap.queue
        /\ timeoutsRef = [i \in 1..Len(cap.queue) |-> <<1, i>>]
        /\ pendingTimeouts = {} /\ rafQueue = <<>>
        /\ surface = <<WhiteFill>> \o cap.direct \o cap.queue
        /\ error = NoError
        /\ done = 1..Len(cap.queue) /\ failed = {}
        /\ lastFrame = <<>>
        /\ StorageUnused

\* The times at which the pending events of the chain are due.
ExportDue ==
    { exportSession.elapsed + t.delay :
        t \in { u \in timers : u.kind \in {"exportSettle", "exportNext", "exportStop"} } }
    \cup { exportSession.elapsed + Duration(sources[i].buffer) :
             i \in { j \in DOMAIN sources : sources[j].origin = "export" } }

\* Nothing of the canvas comes before an event of the chain that is due at d.
CanvasIdleUntil(d) ==
    /\ rafQueue = <<>>
    /\ \A u \in pendingTimeouts : u.due > d

\* Time passes until the chain's event is due.
ClockAdvance ==
    \E d \in ExportDue :
        /\ CanvasIdleUntil(d)
        /\ now < d
        /\ now' = d
        /\ UNCHANGED <<mounted, code, run, commandQueue, timeoutsRef, pendingTimeouts,
                       rafQueue, surface, error, done, failed, lastFrame, startedAt>>
        /\ UNCHANGED <<appVars, storageVars>>

\* A stagger timer fires: none is due earlier, and no event of the chain either.
ExportStaggerTimerFire ==
    /\ rafQueue = <<>>
    /\ StaggerTimerFire
    /\ \A d \in ExportDue : now' <= d
    /\ UNCHANGED <<appVars, storageVars>>

\* The 100 ms timer of playExportStep fires: canvasRef.current?.replay() runs the
\* animation of the displayed code again, then the audio starts or the hold is set.
ExportReplay ==
    \E t \in timers :
        /\ t.kind = "exportSettle"
        /\ CanvasIdleUntil(now) /\ now = exportSession.elapsed + t.delay
        /\ ExportSettle(t)
        /\ IF mounted THEN runAnimation(code) ELSE UNCHANGED canvasVars
        /\ UNCHANGED storageVars

\* An export source ends.
ExportAudioEnded ==
    \E i \in DOMAIN sources :
        /\ sources[i].origin = "export"
        /\ CanvasIdleUntil(now)
        /\ now = exportSession.elapsed + Duration(sources[i].buffer)
        /\ ExportEnded(i)
        /\ UNCHANGED <<canvasVars, storageVars>>

\* playExportStep(index + 1) runs: setCurrentStepIndex gives the canvas the code of
\* the next step and its effect runs the animation; past the last step the stop
\* timer is set and the canvas stays as it is.
ExportShowNext ==
    \E t \in timers :
        /\ t.kind = "exportNext"
        /\ CanvasIdleUntil(now) /\ now = exportSession.elapsed + t.delay
        /\ ExportNext(t)
        /\ IF mounted /\ HasStep(steps, t.index) /\ StepAt(steps, t.index).code # code
           THEN runAnimation(StepAt(steps, t.index).code)
           ELSE UNCHANGED canvasVars
        /\ UNCHANGED storageVars

\* The stop timer fires: recorder.stop().
ExportCaptureStop ==
    \E t \in timers :
        /\ t.kind = "exportStop"
        /\ CanvasIdleUntil(now) /\ now = exportSession.elapsed + t.delay
        /\ ExportStop(t)
        /\ UNCHANGED <<canvasVars, storageVars>>

NextExportCanvas ==
    \/ ClockAdvance
    \/ ExportStaggerTimerFire
    \/ AnimationFrame /\ UNCHANGED <<appVars, storageVars>>
    \/ ExportReplay
    \/ ExportAudioEnded
    \/ ExportShowNext
    \/ ExportCaptureStop
    \/ PrefetchTimerFire
    \/ RecorderOnStop

SpecExportCanvas == InitExportCanvas /\ [][NextExportCanvas]_vars

----------------------------------------------------------------------------
(* The store on its own.  It starts with no entry or with the entry that n  *)
(* earlier saves of n different queries, one per millisecond, have left     *)
(* (the latest is at the front): an empty, a short, an almost full and a    *)
(* full history.                                                            *)

StoredAfter(n) ==
    [present |-> TRUE,
     items |-> [i \in 1..n |-> HistoryItem(n + 1 - i, <<Char(i, FALSE)>>, ListA, n + 1 - i)]]

InitHistory ==
    /\ \E n \in {0, 1, MAX_HISTORY - 1, MAX_HISTORY} :
          /\ localStorage \in {StoredAfter(n)} \cup (IF n = 0 THEN {NoEntry} ELSE {})
          /\ dateNow = n
    /\ storageOps = 0 /\ lastOp = NoOp
    /\ AppIdle /\ CanvasAbsent

NextHistory ==
    \/ SaveHistoryItem
    \/ DeleteHistoryItem

SpecHistory == InitHistory /\ [][NextHistory]_vars

----------------------------------------------------------------------------
(* Claims about the canvas (SpecCanvas) *)

Range(f) == { f[i] : i \in DOMAIN f }

\* The run is over: none of its timers is pending and no frame callback waits.
Quiescent == pendingTimeouts = {} /\ rafQueue = <<>>

\* The primitive invocations of a code, in the order the code makes them.
PrimitiveCalls(c) == SelectSeq(c, LAMBDA ins : ins.kind \in PrimKinds)

\* C1 (as claimed): every command an animation frame invokes was captured by the
\* latest runAnimation call, and the canvas is still mounted: no command of an
\* earlier run, and no command at all after the unmount, executes.
C1_NoCommandAfterCancel ==
    \A k \in 1..Len(lastFrame) :
        lastFrame[k].run = lastFrame[k].curRun /\ lastFrame[k].mounted

\* C8: when the step code ran without throwing, the captured command list is the
\* list of its primitive invocations: one command per invocation, in invocation
\* order, each with the arguments of its own invocation.
C8_CaptureMirrorsCalls ==
    error = NoError => commandQueue = PrimitiveCalls(code)

C8_Witness ==
    /\ error = NoError
    /\ Len(commandQueue) >= 2
    /\ commandQueue[1] # commandQueue[2]
    /\ commandQueue = PrimitiveCalls(code)

\* C9 (as claimed): once a run whose step code threw is over, the error notice
\* has been drawn on the surface.
C9_FallbackNoticeDrawn ==
    (mounted /\ error = DrawError /\ Quiescent) => ErrorNotice \in Range(surface)

\* C10: when a run that was not cancelled is over, every command of its list was
\* invoked, also the commands that follow one that threw; and no command that
\* threw put the component into the error state.
C10_LaterCommandsStillRun ==
    /\ failed # {} => error = NoError
    /\ (mounted /\ error = NoError /\ Quiescent) => done = 1..Len(commandQueue)

C10_Witness ==
    /\ mounted /\ error = NoError /\ Quiescent
    /\ \E k \in failed : \E j \in done : j > k /\ j \notin failed

----------------------------------------------------------------------------
(* Claims about the audio loader, playback and export (SpecApp) *)

\* C2: while a call for a narration is in flight and nothing is cached for it,
\* every further ensureAudioLoaded call for the same narration gets the promise of
\* that one call, and at most one upstream call per narration is in flight.
C2_ConcurrentCallersShareOneCall ==
    /\ \A c1, c2 \in upstream :
          SameNarration(c1.narration, c2.narration) => c1 = c2
    /\ \A k \in DOMAIN lastCall :
          (lastCall[k].sameCached = {} /\ lastCall[k].sameInflight # {}) =>
              /\ lastCall[k].outcome = "joined"
              /\ lastCall[k].sameInflight = {lastCall[k].promise}

\* C3: a source of interactive playback is started for step i only while step i is
\* the displayed step; a load that resolves after the user left step i starts none.
C3_NoSourceForLeftStep ==
    \A i \in DOMAIN sources :
        sources[i].origin = "play" => sources[i].index = sources[i].shown

\* C3 witness: a playAudioForStep call that awaited its load resumed after the user
\* had moved to another step, and returned without starting a source.
C3_Witness ==
    /\ lastDiscarded # <<>>
    /\ \A k \in DOMAIN lastDiscarded : lastDiscarded[k] # currentStepIndex
    /\ ~isExporting

\* C4: during an export at most one source connected to the capture sink is
\* playing, the sources start in step order, and each starts after the one before
\* it has ended.
C4_ExportSourcesInOrderNoOverlap ==
    /\ Cardinality({ i \in DOMAIN sources :
                        sources[i].toDest /\ sources[i].state = "playing" }) <= 1
    /\ \A k \in DOMAIN exportSession.log :
          /\ k % 2 = 1 => exportSession.log[k][1] = "start"
          /\ k % 2 = 0 => exportSession.log[k] = <<"end", exportSession.log[k - 1][2]>>
          /\ (k % 2 = 1 /\ k > 2) =>
                exportSession.log[k][2] > exportSession.log[k - 2][2]

\* C4 witness: the source of a later step was started after the source of an
\* earlier step had ended.
C4_Witness ==
    /\ exportSession.phase = "recording"
    /\ Len(exportSession.log) >= 3
    /\ exportSession.log[3][1] = "start"
    /\ exportSession.log[3][2] > exportSession.log[1][2]

C6_NoCallWhileQuotaExceeded ==
    \A c \in upstream : ~c.afterQuota

\* C7: when the cache holds a buffer for a narration with the same trimmed title
\* and description, ensureAudioLoaded returns that buffer and issues no call.
C7_SameTextSharesCacheEntry ==
    \A k \in DOMAIN lastCall :
        lastCall[k].sameCached # {} =>
            /\ lastCall[k].outcome = "cached"
            /\ \E key \in lastCall[k].sameCached :
                  lastCall[k].buffer = audioCacheRef[key]

\* C7 witness: ensureAudioLoaded for one step returned the buffer that was loaded
\* for another step with the same trimmed text.
C7_Witness ==
    \E k \in DOMAIN lastCall :
        /\ lastCall[k].outcome = "cached"
        /\ lastCall[k].buffer # Buffer(lastCall[k].narration)
        /\ SameNarration(lastCall[k].buffer, lastCall[k].narration)

----------------------------------------------------------------------------
(* Claims about the export session and navigation (SpecApp) *)

\* What keeps an export going: the pending timers of playExportStep, the sources
\* it started, and the preparation loop awaiting a synthesis.
ExportTimers == { t \in timers : t.kind \in {"exportSettle", "exportNext", "exportStop"} }

ExportTokens ==
    Cardinality(ExportTimers)
    + Cardinality({ i \in DOMAIN sources : sources[i].origin = "export" })
    + Cardinality({ i \in DOMAIN waiters : waiters[i].kind = "export" })

\* C11: at most one export session is alive: at most one preparation loop or
\* playExportStep chain runs, it runs only while isExporting is true, and the
\* recorder records only for the session whose chain runs.
C11_OneExportSession ==
    /\ ExportTokens <= 1
    /\ (ExportTokens > 0 \/ recorder # "none") => isExporting
    /\ recorder = "recording" => exportSession.phase = "recording"
    /\ exportSession.phase = "prep" => recorder = "none"

\* C11 witness: a second export was requested after the first one was over, and
\* its chain is the only one running.
C11_Witness ==
    /\ exportSession.seq >= 2
    /\ exportSession.phase = "recording"
    /\ recorder = "recording"
    /\ ExportTokens = 1

\* C12: when the setup of an export fails (no canvas, or the recorder cannot be
\* created or started), isExporting is false again, no recorder records, no
\* playExportStep chain runs, and one error was shown; a session that did not fail
\* showed none.
C12_SetupFailureAbortsSession ==
    /\ exportSession.phase = "aborted" =>
          /\ ~isExporting
          /\ recorder = "none"
          /\ ExportTokens = 0
          /\ exportSession.alerts = 1
    /\ exportSession.phase # "aborted" => exportSession.alerts = 0

\* C12 witness: after an export was aborted in its setup, the auto-play timer set
\* by the abort has fired and interactive playback plays the displayed step.
C12_Witness ==
    /\ exportSession.phase = "aborted"
    /\ Len(exportSession.prep) = Len(exportSession.steps)
    /\ \A t \in timers : t.kind # "autoplay"
    /\ isSpeaking
    /\ \E i \in DOMAIN sources :
          /\ sources[i].origin = "play"
          /\ sources[i].state = "playing"
          /\ sources[i].ref

\* C13: while an export is running, the handlers of next, previous, reset / logo,
\* search submit and history load change neither the current step index nor the
\* step list nor the app state.
C13_NavigationDisabledDuringExport ==
    [][(isExporting /\ (OnNext \/ OnPrev \/ OnReset \/ HandleSearch \/ LoadHistoryItem))
         => UNCHANGED <<currentStepIndex, steps, appState>>]_vars

\* The sources of interactive playback that are playing.
PlayingInteractive(srcs) ==
    { i \in DOMAIN srcs : srcs[i].origin = "play" /\ srcs[i].state = "playing" }

\* C14: no step taken while an export is running starts a source of interactive
\* playback.
C14_NoInteractiveSourceDuringExport ==
    [][isExporting =>
         Cardinality(PlayingInteractive(sources')) <= Cardinality(PlayingInteractive(sources))]_vars

\* Step i (0-based) of the running export was recorded with its narration.
RecordedWithAudio(i) == \E k \in DOMAIN exportSession.log : exportSession.log[k] = <<"start", i>>

\* The narration duration of step i of the running export.
NarrationDuration(i) ==
    Duration(audioCacheRef[getAudioKey(StepAt(exportSession.steps, i))])

\* The sum over the steps i..n-1 of the time the claim gives to a step; pauseAfterHold
\* tells whether the inter-step pause is also counted after a fallback hold.
RECURSIVE StepTimes(_, _)
StepTimes(i, pauseAfterHold) ==
    IF i >= Len(exportSession.steps) THEN 0
    ELSE (IF RecordedWithAudio(i)
          THEN EXPORT_SETTLE_DELAY + NarrationDuration(i) + EXPORT_PAUSE
          ELSE EXPORT_SETTLE_DELAY + EXPORT_FALLBACK_HOLD
               + (IF pauseAfterHold THEN EXPORT_PAUSE ELSE 0))
         + StepTimes(i + 1, pauseAfterHold)

----------------------------------------------------------------------------
(* Claims about the loader and the canvas timing *)

C17_AuthorOrderAndStagger ==
    /\ done = 1..Cardinality(done)
    /\ \A k \in 1..Len(lastFrame) :
          lastFrame[k].run = lastFrame[k].curRun =>
              /\ lastFrame[k].at >= startedAt + (lastFrame[k].index - 1) * STAGGER_DELAY
              /\ \A j \in 1..(k - 1) :
                    lastFrame[j].run = lastFrame[j].curRun =>
                        lastFrame[j].index < lastFrame[k].index

\* C17 witness: a run that was started after time 0 has invoked its second
\* command, after its first one and a stagger interval after the start.
C17_Witness ==
    /\ startedAt > 0
    /\ done = {1, 2}
    /\ \E k \in 1..Len(lastFrame) :
          /\ lastFrame[k].run = lastFrame[k].curRun
          /\ lastFrame[k].index = 2
          /\ lastFrame[k].at >= startedAt + STAGGER_DELAY

----------------------------------------------------------------------------
(* Claims about narration and the displayed step (SpecApp) *)

\* C18: an interactive narration source is started for step i only when step i
\* is the current step, and in an export the source of step i is started only
\* after the canvas was told to replay at the settle timer of step i.
C18_NarrationAfterReplayStarted ==
    /\ \A i \in DOMAIN sources :
          sources[i].origin = "play" => sources[i].shown = sources[i].index
    /\ \A k \in DOMAIN exportSession.log :
          exportSession.log[k][1] = "start" =>
              exportSession.log[k][2] \in exportSession.replays

\* C19: when next or previous switches the displayed step, no narration source
\* is playing when the handler is done.
C19_SwitchStopsEveryPlayingSource ==
    [][(~isExporting /\ (OnNext \/ OnPrev)) =>
          \A i \in DOMAIN sources' : sources'[i].state # "playing"]_vars

----------------------------------------------------------------------------
(* Claims about the end of an export (SpecAppLive) *)

\* C20 (as claimed): every export that passed the entry guard eventually stops
\* the recorder.
C20_EveryExportStopsRecorder ==
    isExporting ~> (recorder = "stopping")

\* The moves of a session: from preparation to recording or to aborted, into
\* recording only with the recorder started, out of it only by the stop event.
ExportPhaseStep ==
    /\ (exportSession.phase = "prep") =>
          (exportSession'.phase \in {"prep", "recording", "aborted"})
    /\ (exportSession.phase # "recording" /\ exportSession'.phase = "recording") =>
          (recorder' = "recording")
    /\ (exportSession.phase = "recording" /\ exportSession'.phase # "recording") =>
          (recorder = "stopping" /\ exportSession'.phase = "none" /\ ~isExporting')

\* C20 (amended): every export that passed the entry guard eventually ends with
\* isExporting false; one whose set-up succeeded records the steps, eventually
\* stops the recorder and then ends; one whose set-up failed ends in the catch
\* block and never starts a recorder.
C20_ExportEndsOrAborts ==
    /\ isExporting ~> ~isExporting
    /\ (exportSession.phase = "recording") ~> (recorder = "stopping")
    /\ (recorder = "stopping") ~> (recorder = "none" /\ ~isExporting)
    /\ [][ExportPhaseStep]_vars

\* C20 witness: an export has run to its end (the recorder stopped, isExporting
\* reset) with the narration of one step cached and that of another one missing.
C20_Witness ==
    /\ exportSession.seq >= 1 /\ exportSession.phase = "none"
    /\ ~isExporting /\ recorder = "none" /\ ExportTokens = 0
    /\ \E k1, k2 \in AllKeys : audioCacheRef[k1] # NoBuffer /\ audioCacheRef[k2] = NoBuffer

----------------------------------------------------------------------------
(* Claims about capture isolation and the canvas timers (SpecCanvas) *)

\* C21: running the step code draws nothing: when runAnimation returns, the
\* surface holds the white fill only, whatever the step code did.
C21_CaptureDrawsNothing ==
    [][(CodeChange \/ Replay) => surface' = <<WhiteFill>>]_vars

----------------------------------------------------------------------------
(* Claims about reset, the caches and prefetch (SpecApp) *)

\* C22: after an explicit reset to the idle view no narration source is playing
\* and no auto-play, prefetch or export timer of the App is pending.
C22_ResetLeavesNothingRunning ==
    [][(~isExporting /\ OnReset) =>
          /\ \A i \in DOMAIN sources' : sources'[i].state # "playing"
          /\ timers' = {}]_vars

\* C23: a key never has a cache entry and a pending entry at once, at most one
\* synthesis per key is in flight, and a key has a pending entry exactly while
\* its synthesis is in flight (the entry goes when the call succeeds or fails).
C23_CacheAndPendingDisjoint ==
    /\ \A k \in AllKeys :
          ~(audioCacheRef[k] # NoBuffer /\ audioLoadingPromisesRef[k] # 0)
    /\ \A c1, c2 \in upstream : c1.key = c2.key => c1 = c2
    /\ \A k \in AllKeys :
          audioLoadingPromisesRef[k] # 0 <=>
              \E c \in upstream : c.key = k /\ c.id = audioLoadingPromisesRef[k]

\* C23 witness: one key is cached with no pending entry while the synthesis of
\* another key, asked for again after a failure set the quota flag, is pending.
C23_Witness ==
    \E k1, k2 \in AllKeys :
        /\ audioCacheRef[k1] # NoBuffer /\ audioLoadingPromisesRef[k1] = 0
        /\ audioCacheRef[k2] = NoBuffer /\ audioLoadingPromisesRef[k2] # 0
        /\ quotaExceeded

\* C24: every pending stagger timer was scheduled by the latest runAnimation call,
\* and is one of the timers that call recorded in timeoutsRef.
C24_TimersOfLatestRunOnly ==
    \A t \in pendingTimeouts :
        /\ t.run = run
        /\ \E k \in 1..Len(timeoutsRef) : timeoutsRef[k] = <<t.run, t.index>>

\* C24 witness: runAnimation was called again when the first timer of the first
\* run had fired and its frame had not yet run; only the two timers of the second
\* run are pending.
C24_Witness ==
    /\ run = 2
    /\ Len(rafQueue) = 1 /\ rafQueue[1].run = 1 /\ rafQueue[1].index = 1
    /\ Len(commandQueue) = 2
    /\ Cardinality(pendingTimeouts) = 2
    /\ done = {}

\* C25: a synthesis call that fails without a rate-limit signal leaves the cache
\* and the quota flag as they were, every continuation that awaited its promise
\* gets the failure, and its pending entry is gone (or belongs to a new call that
\* one of those continuations issued); and a call for a narration that is neither
\* cached nor in flight, made with the flag not set, issues a new upstream call.
C25_FailureAllowsRetry ==
    [][/\ (lastSettle' # <<>> /\ lastSettle'[1].outcome = "error") =>
            /\ audioCacheRef' = audioCacheRef
            /\ quotaExceeded' = quotaExceeded
            /\ lastSettle'[1].rejected = lastSettle'[1].awaiting
            /\ \/ audioLoadingPromisesRef'[lastSettle'[1].call.key] = 0
               \/ \E k \in DOMAIN lastCall' :
                     /\ lastCall'[k].outcome = "issued"
                     /\ getAudioKey(lastCall'[k].narration) = lastSettle'[1].call.key
       /\ \A k \in DOMAIN lastCall' :
            (/\ lastCall'[k].sameCached = {} /\ lastCall'[k].sameInflight = {}
             /\ lastCall'[k].outcome \notin {"quota", "nostep"}) =>
                lastCall'[k].outcome = "issued"]_vars

\* C25 witness: in an export the synthesis of step 0 failed without the rate-limit
\* signal, and a new call for the key of step 0 is in flight.
C25_Witness ==
    /\ exportSession.phase = "prep" /\ ~quotaExceeded
    /\ Len(exportSession.prep) >= 1 /\ exportSession.prep[1] = "failed"
    /\ \E c \in upstream : c.key = getAudioKey(StepAt(exportSession.steps, 0))

\* C26: navigation, reset, search and history load leave every synthesis in flight
\* and its pending entry alone; a call that succeeds stores its buffer under the
\* key it was started for and its pending entry is removed, whatever step is
\* displayed then; and no upstream call is issued for a narration that is cached.
C26_LoadSurvivesNavigation ==
    [][/\ (OnNext \/ OnPrev \/ OnReset \/ HandleSearch \/ LoadHistoryItem) =>
            /\ upstream' = upstream
            /\ audioLoadingPromisesRef' = audioLoadingPromisesRef
       /\ (lastSettle' # <<>> /\ lastSettle'[1].outcome = "ok") =>
            /\ audioCacheRef'[lastSettle'[1].call.key] = Buffer(lastSettle'[1].call.narration)
            /\ audioLoadingPromisesRef'[lastSettle'[1].call.key] = 0
       /\ \A k \in DOMAIN lastCall' :
            lastCall'[k].sameCached # {} => lastCall'[k].outcome # "issued"]_vars

\* C26 witness: the synthesis started by playAudioForStep for a step succeeded
\* after the user had left the step: no source was started for it, and its buffer
\* is in the cache under the step's key.
C26_Witness ==
    /\ lastSettle # <<>> /\ lastSettle[1].outcome = "ok"
    /\ lastDiscarded # <<>>
    /\ appState = "SUCCESS" /\ HasStep(steps, lastDiscarded[1])
    /\ currentStepIndex # lastDiscarded[1]
    /\ getAudioKey(StepAt(steps, lastDiscarded[1])) = lastSettle[1].call.key
    /\ audioCacheRef[lastSettle[1].call.key] = Buffer(lastSettle[1].call.narration)
    /\ audioLoadingPromisesRef[lastSettle[1].call.key] = 0

\* What the user sees and hears of the App, and what is scheduled to play.
PlaybackAndUi ==
    <<appState, steps, currentStepIndex, isSpeaking, isLoadingAudio, quotaExceeded,
      isExporting, showDropdown, sources, timers, recorder>>

\* The prefetch timer is armed for the displayed step only, with the debounce
\* delay, in the success view and with the quota flag not set; and when it fires,
\* ensureAudioLoaded is called for the step after the displayed one if there is
\* one, and not at all otherwise.
PrefetchPolicy ==
    /\ \A t \in timers' :
          t.kind = "prefetch" =>
              /\ t.index = currentStepIndex' /\ t.delay = PREFETCH_DELAY
              /\ appState' = "SUCCESS" /\ ~quotaExceeded'
    /\ PrefetchTimerFire =>
          /\ ~quotaExceeded
          /\ IF currentStepIndex + 1 < Len(steps)
             THEN /\ Len(lastCall') = 1
                  /\ lastCall'[1].narration = Narration(StepAt(steps, currentStepIndex + 1))
                  /\ lastCall'[1].outcome \in {"cached", "joined", "issued"}
             ELSE lastCall' = <<>>

\* A call nobody awaits is one that only the prefetch asked for.
PrefetchFailed(outcomes) ==
    /\ lastSettle' # <<>>
    /\ lastSettle'[1].outcome \in outcomes
    /\ lastSettle'[1].awaiting = <<>>

\* C27 (as claimed): the prefetch policy, and a failing prefetch changes no
\* playback or UI state.
C27_PrefetchFailureChangesNothing ==
    [][/\ PrefetchPolicy
       /\ PrefetchFailed({"error", "429"}) => UNCHANGED PlaybackAndUi]_vars

\* C27 (amended): the prefetch policy; a prefetch that fails without the
\* rate-limit signal changes no playback or UI state; one that fails with it
\* sets the quota flag, which clears the auto-play and prefetch timers, and
\* changes nothing else.
C27_PrefetchFailureSetsQuotaAtMost ==
    [][/\ PrefetchPolicy
       /\ PrefetchFailed({"error"}) => UNCHANGED PlaybackAndUi
       /\ PrefetchFailed({"429"}) =>
            /\ quotaExceeded'
            /\ timers' = { t \in timers : t.kind \notin {"autoplay", "prefetch"} }
            /\ UNCHANGED <<appState, steps, currentStepIndex, isSpeaking,
                           isLoadingAudio, isExporting, showDropdown, sources,
                           recorder>>]_vars

\* C27 witness: while a narration is playing, a prefetch that nobody awaited
\* failed without the rate-limit signal.
C27_Witness ==
    /\ lastSettle # <<>> /\ lastSettle[1].outcome = "error"
    /\ lastSettle[1].awaiting = <<>>
    /\ appState = "SUCCESS" /\ isSpeaking /\ ~quotaExceeded
    /\ \E i \in DOMAIN sources : sources[i].state = "playing"

----------------------------------------------------------------------------
(* Claims about export steps without audio and about finalization (SpecApp) *)

\* The settle timer of export step i is pending and the cache has no buffer for
\* the narration of the step.
HeldStep(i) ==
    /\ Timer("exportSettle", i, EXPORT_SETTLE_DELAY) \in timers
    /\ audioCacheRef[getAudioKey(StepAt(exportSession.steps, i))] = NoBuffer

\* C28: when the export reaches a step without a cached buffer it starts no
\* source and sets the 5000 ms timer for the next step; when that timer fires the
\* next step is set up, or the stop timer after the last step; and while the
\* recorder records, exactly one timer or source of the chain is pending.
C28_HoldThenAdvance ==
    [][/\ \A i \in 0..(Len(exportSession.steps) - 1) :
            (HeldStep(i) /\ ExportSettleTimerFire) =>
                /\ sources' = sources
                /\ exportSession'.log = exportSession.log
                /\ ExportTimers' = {Timer("exportNext", i + 1, EXPORT_FALLBACK_HOLD)}
       /\ \A t \in ExportTimers :
            (t.kind = "exportNext" /\ ExportNextTimerFire) =>
                ExportTimers' = IF t.index < Len(exportSession.steps)
                                THEN {Timer("exportSettle", t.index, EXPORT_SETTLE_DELAY)}
                                ELSE {Timer("exportStop", t.index, EXPORT_TAIL)}
       /\ (recorder' = "recording") => (ExportTokens' = 1)]_vars

\* C28 witness: the last step of a list of several steps had no cached narration;
\* the export held for it and has set the stop timer, with no source started
\* for that step.
C28_Witness ==
    /\ recorder = "recording"
    /\ Len(exportSession.steps) > 1
    /\ \E t \in timers : t.kind = "exportStop"
    /\ exportSession.elapsed >= EXPORT_FALLBACK_HOLD
    /\ ~ \E k \in DOMAIN exportSession.log :
            exportSession.log[k] = <<"start", Len(exportSession.steps) - 1>>

\* C29: when the recorder's stop event is handled the session is over
\* (isExporting reset, no recorder) and the capture sink created for the export
\* is released.
C29_FinalizationReleasesSink ==
    [][RecorderOnStop =>
          /\ ~isExporting' /\ recorder' = "none"
          /\ exportSession'.phase = "none"
          /\ exportSession'.sink = "none"]_vars

----------------------------------------------------------------------------
(* Claims about regeneration (SpecRegen) *)

\* C30: when a regeneration completes, the displayed step list keeps its length
\* and every title and description, and the code of at most one step changes,
\* also when the list was replaced while the regeneration was in flight.
C30_RegenerationChangesOnlyOneCode ==
    [][RegenerationSettle =>
          /\ Len(steps') = Len(steps)
          /\ \A i \in DOMAIN steps :
                Narration(steps'[i]) = Narration(steps[i])
          /\ Cardinality({ i \in DOMAIN steps : steps'[i].code # steps[i].code }) <= 1]_vars

----------------------------------------------------------------------------
(* Claims about the saved lessons (SpecHistory) *)

\* C31: the stored history holds at most 20 items, it is in the order of the
\* saves with the latest first, and after a save that stored its item that item
\* is at the front.
C31_CappedAndLatestFirst ==
    LET h == getHistory(localStorage) IN
    /\ Len(h) <= MAX_HISTORY
    /\ \A i, j \in DOMAIN h : i < j => h[i].timestamp >= h[j].timestamp
    /\ (lastOp.op = "save" /\ lastOp.ok) =>
          /\ h # <<>>
          /\ h[1].query = lastOp.query /\ h[1].id = lastOp.id

\* C31 witness: a save of a new query into a full history has pushed the oldest
\* item out.
C31_Witness ==
    LET h == getHistory(localStorage) IN
    /\ lastOp.op = "save" /\ lastOp.ok
    /\ Len(h) = MAX_HISTORY
    /\ h[1].query = <<Char(MAX_HISTORY + 1, TRUE)>>
    /\ \A i \in DOMAIN h : h[i].query # <<Char(1, FALSE)>>
    /\ h[MAX_HISTORY].timestamp = 2

\* C32: no two stored items have queries that are equal ignoring case, and
\* after a save that stored its item no other stored item matches the saved
\* query ignoring case.
C32_NoTwoQueriesEqualIgnoringCase ==
    LET h == getHistory(localStorage) IN
    /\ \A i, j \in DOMAIN h :
          toLowerCase(h[i].query) = toLowerCase(h[j].query) => i = j
    /\ (lastOp.op = "save" /\ lastOp.ok) =>
          /\ h # <<>> /\ h[1].query = lastOp.query
          /\ \A i \in 2..Len(h) : toLowerCase(h[i].query) # toLowerCase(lastOp.query)

\* C32 witness: a full history held "a" at the front; "A" was saved, took its
\* place, and no item was pushed out at the back.
C32_Witness ==
    LET h == getHistory(localStorage) IN
    /\ lastOp.op = "save" /\ lastOp.ok /\ storageOps = 1
    /\ lastOp.query = <<Char(1, TRUE)>>
    /\ Len(h) = MAX_HISTORY
    /\ h[1].query = <<Char(1, TRUE)>> /\ h[2].query = <<Char(2, FALSE)>>
    /\ h[MAX_HISTORY].timestamp = 1

----------------------------------------------------------------------------
(* Claims about playback races and the step index (SpecApp, SpecRegen) *)

\* C33: in interactive mode at most one narration source is playing.
C33_AtMostOneSourcePlaying ==
    ~isExporting => Cardinality(PlayingInteractive(sources)) <= 1

\* The playing sources of interactive playback that activeSourceRef points to.
ActivePlaying(srcs) == { i \in PlayingInteractive(srcs) : srcs[i].ref }

\* C34: the onended handler of a source that was stopped earlier leaves
\* activeSourceRef on the source that is playing: when the ended event of a
\* stopped source is handled (the playing sources stay as they are), the playing
\* source that activeSourceRef pointed to is still the one it points to.
C34_EndedKeepsLaterReference ==
    [][(/\ PlaySourceEnded
        /\ Cardinality(PlayingInteractive(sources')) = Cardinality(PlayingInteractive(sources)))
          => Cardinality(ActivePlaying(sources')) = Cardinality(ActivePlaying(sources))]_vars

\* C35: whenever the app state is SUCCESS the index of the current step is
\* within the step list.
C35_IndexWithinSteps ==
    appState = "SUCCESS" => HasStep(steps, currentStepIndex)

\* C36: a source of interactive playback that a step starts carries the narration
\* of the current step of the list as it is after that step: steps[currentStepIndex]
\* exists and the buffer's key is its NarrationKey.
C36_StartedSourceIsOfDisplayedStep ==
    [][\A i \in (Len(sources) + 1)..Len(sources') :
          sources'[i].origin = "play" =>
             /\ HasStep(steps', currentStepIndex')
             /\ getAudioKey(StepAt(steps', currentStepIndex')) = getAudioKey(sources'[i].buffer)]_vars

\* C38: no step taken while an export session is active replaces the step list.
C38_StepsFixedWhileExporting ==
    [][isExporting => steps' = steps]_vars

----------------------------------------------------------------------------
(* Claims about a capture that throws (SpecCanvas) *)

\* C39: while the canvas shows the error of a capture that threw, no command of
\* that run has been executed or is waiting for its animation frame, and no
\* stagger timer is pending, neither of that run nor of an earlier one.
C39_ThrowingCaptureSchedulesNothing ==
    error = DrawError =>
        /\ pendingTimeouts = {}
        /\ timeoutsRef = <<>>
        /\ done = {}
        /\ \A k \in DOMAIN rafQueue : rafQueue[k].run # run
        /\ \A k \in DOMAIN lastFrame : lastFrame[k].run # run

\* C39 witness: the second run threw after it had captured one command, while a
\* command of the first run was waiting for its animation frame.
C39_Witness ==
    /\ error = DrawError /\ run = 2
    /\ Len(commandQueue) = 2
    /\ rafQueue # <<>> /\ rafQueue[1].run = 1
    /\ startedAt > 0

----------------------------------------------------------------------------
(* Claims about the animation during an export (SpecExportCanvas) *)

\* C37: during an export, when the next step is set current or the recorder is
\* stopped, the animation of the step shown until then is complete: every
\* captured command has been executed and no stagger timer is pending.
C37_AnimationCompleteBeforeNextStep ==
    [][(/\ isExporting
        /\ \/ currentStepIndex' # currentStepIndex
           \/ recorder = "recording" /\ recorder' = "stopping")
          => /\ done = DOMAIN commandQueue
             /\ pendingTimeouts = {}
             /\ rafQueue = <<>>]_vars

====
